---------------------------- MODULE Spec2Model ----------------------------
(***************************************************************************)
(* A model of pudl/pudl.py: the initialisation of the PUDL database from   *)
(* the FERC Form 1 database, the EIA 923 spreadsheet pages and the         *)
(* FERC/EIA id mapping spreadsheet.                                        *)
(*                                                                         *)
(* A DataFrame and a database table are both sequences of rows; a row is   *)
(* a record from column names to cells.  A cell is <<>> (NaN / NULL) or    *)
(* <<v>> (the value v), so that a column of any type can hold a null.      *)
(* A free-text string that the code parses or canonicalises (a plant name, *)
(* a year field) is a sequence of one-character strings; a categorical     *)
(* string that is only compared is a TLA+ string.                          *)
(***************************************************************************)
EXTENDS Integers, Sequences, FiniteSets, TLC

VARIABLES
    pc,            \* where init_db is: a label of its code, or how it ended
    args,          \* the arguments of the running init_db call
    ferc1_db,      \* the FERC Form 1 source database: table name -> rows
    eia923_xlsx,   \* the EIA 923 spreadsheet pages: page name -> rows
    mapping,       \* mapping_eia923_ferc1.xlsx: plants_output, utilities_output
    schema,        \* the tables that exist in the PUDL database
    db,            \* the PUDL database: table name -> rows
    log,           \* the steps the running init_db call has completed, in order
    ferc_todo,     \* the keys of ferc1_ingest_functions the loop has yet to visit
    eia_todo,      \* the keys of eia923_ingest_functions the loop has yet to visit
    eia923_dfs,    \* the pages init_db has read into memory: page name -> rows
    runs           \* how many init_db calls have been started

vars == <<pc, args, ferc1_db, eia923_xlsx, mapping, schema, db, log,
          ferc_todo, eia_todo, eia923_dfs, runs>>

---------------------------------------------------------------------------
(* Bounds of the model.                                                    *)

\* init_db calls made one after the other on the same PUDL database
MaxRuns == 2
\* rows of the source table or page that a per-function specification varies
MaxRows == 1
\* rows of each sheet of the mapping spreadsheet
MaxMapRows == 2

---------------------------------------------------------------------------
(* Cells, rows and frames.                                                 *)

\* np.nan / SQL NULL
null == <<>>

Val(v) == <<v>>

IsNull(c) == c = null

Range(s) == {s[i] : i \in 1..Len(s)}

\* the sequences over S of length at most n
SeqsUpTo(S, n) == UNION {[1..k -> S] : k \in 0..n}

RECURSIVE SetToSeq(_)
\* a set as a sequence, in a fixed order: the rows a dict or a set yields
SetToSeq(S) ==
    IF S = {} THEN <<>>
    ELSE LET x == CHOOSE y \in S : TRUE IN <<x>> \o SetToSeq(S \ {x})

\* [f(r) for r in df]
MapRows(F(_), df) == [i \in 1..Len(df) |-> F(df[i])]

\* df[keep(r)]: a boolean-mask selection, a SQL WHERE
SelectRows(Keep(_), df) == SelectSeq(df, Keep)

\* df[cols]
Project(r, cols) == [c \in cols |-> r[c]]

\* df.drop(cols, axis=1)
DropCols(r, cols) == [c \in (DOMAIN r) \ cols |-> r[c]]

\* df.rename(columns=m): m is a function from old names to new names; a key
\* of m that is no column of the frame is ignored, as pandas does
RenameCols(r, m) ==
    LET new(c) == IF c \in DOMAIN m THEN m[c] ELSE c
    IN  [d \in {new(c) : c \in DOMAIN r} |->
            r[CHOOSE c \in DOMAIN r : new(c) = d]]

\* df[name] = value: a new column, or an existing one overwritten
WithCol(r, name, value) ==
    [c \in (DOMAIN r) \cup {name} |-> IF c = name THEN value ELSE r[c]]

\* a row as pd.isnull(df).any(axis=1) sees it
HasNull(r) == \E c \in DOMAIN r : IsNull(r[c])

HasNullIn(r, cols) == \E c \in cols \cap DOMAIN r : IsNull(r[c])

\* a dropna that drops nothing, which C21 must tell from the real one
DropNA_Nothing(df) == SelectSeq(df, LAMBDA r : DOMAIN r = DOMAIN r)

\* df.dropna()
DropNA(df) == SelectSeq(df, LAMBDA r : ~HasNull(r))

\* df.dropna(subset=cols)
DropNASubset(df, cols) == SelectSeq(df, LAMBDA r : ~HasNullIn(r, cols))

\* a drop_duplicates that drops nothing, which C10 must tell from the real one
DropDuplicates_KeepAll(df, cols) == df

\* df.drop_duplicates(subset=cols): the first row of each key is kept, and
\* two nulls are the same key
DropDuplicates(df, cols) ==
    LET key(r) == Project(r, cols)
        first(i) == \A j \in 1..(i - 1) : key(df[j]) # key(df[i])
        RECURSIVE from(_)
        from(i) == IF i > Len(df) THEN <<>>
                   ELSE (IF first(i) THEN <<df[i]>> ELSE <<>>) \o from(i + 1)
    IN  from(1)

---------------------------------------------------------------------------
(* Strings that the code takes apart.                                      *)

LowerCase == {"a", "b"}
UpperCase == {"A", "B"}
Digits    == {"1", "9"}
Chars     == LowerCase \cup UpperCase \cup Digits \cup {" ", "x"}

IsLetter(ch) == ch \in LowerCase \cup UpperCase

Upper(ch) == CASE ch = "a" -> "A" [] ch = "b" -> "B" [] OTHER -> ch
Lower(ch) == CASE ch = "A" -> "a" [] ch = "B" -> "b" [] OTHER -> ch

RECURSIVE LStrip(_)
LStrip(s) == IF s # <<>> /\ Head(s) = " " THEN LStrip(Tail(s)) ELSE s

RECURSIVE RStrip(_)
RStrip(s) ==
    IF s # <<>> /\ s[Len(s)] = " " THEN RStrip(SubSeq(s, 1, Len(s) - 1)) ELSE s

\* str.strip()
Strip(s) == RStrip(LStrip(s))

\* str.capitalize() in the place of str.title(), which C17 must tell from
\* the real one
Title_Capitalize(s) ==
    [i \in 1..Len(s) |-> IF i = 1 THEN Upper(s[i]) ELSE Lower(s[i])]

\* str.title(): a letter that follows no letter is upper-cased, every other
\* letter is lower-cased
Title(s) ==
    [i \in 1..Len(s) |->
        IF i = 1 \/ ~IsLetter(s[i - 1]) THEN Upper(s[i]) ELSE Lower(s[i])]

\* Series.str.strip() then Series.str.title(), on one cell
StripTitle(c) == IF IsNull(c) THEN null ELSE Val(Title(Strip(c[1])))

DigitValue(ch) == CASE ch = "1" -> 1 [] ch = "9" -> 9

RECURSIVE DigitsValue(_)
DigitsValue(s) ==
    IF s = <<>> THEN 0
    ELSE 10 * DigitsValue(SubSeq(s, 1, Len(s) - 1)) + DigitValue(s[Len(s)])

\* pd.to_numeric(series, errors='coerce'), on one cell: the number a string of
\* digits spells, NaN for anything else
ToNumeric(c) ==
    IF IsNull(c) THEN null
    ELSE IF c[1] # <<>> /\ \A i \in 1..Len(c[1]) : c[1][i] \in Digits
         THEN Val(DigitsValue(c[1]))
         ELSE null

\* 1000 * series and series * 1000.0
Times1000(c) == IF IsNull(c) THEN null ELSE Val(1000 * c[1])

\* a conversion that multiplies where the code divides, which C13 must tell
\* from the real one
Over1000_Times(c) == IF IsNull(c) THEN null ELSE Val(1000 * c[1])

\* series / 1000.0 (the model's quantities are whole multiples of 1000)
Over1000(c) == IF IsNull(c) THEN null ELSE Val(c[1] \div 1000)

---------------------------------------------------------------------------
(* pudl.constants and pudl.ferc1: the names pudl.py imports.               *)

\* the tables the FERC Form 1 ingest is known to work for
ferc1_working_tables ==
    {"f1_respondent_id", "f1_fuel", "f1_steam", "f1_hydro",
     "f1_pumped_storage", "f1_plant_in_srvce", "f1_purchased_pwr",
     "f1_accumdepr_prvsn"}

\* the FERC Form 1 tables that have a PUDL counterpart
ferc1_pudl_tables ==
    {"f1_fuel", "f1_steam", "f1_hydro", "f1_pumped_storage",
     "f1_plant_in_srvce", "f1_purchased_pwr", "f1_accumdepr_prvsn"}

eia923_pudl_tables ==
    {"plant_info_eia923", "generation_fuel_eia923", "boiler_fuel_eia923",
     "generation_eia923", "fuel_receipts_costs_eia923", "stocks_eia923"}

\* canonical category -> the free-text spellings of it
ferc1_fuel_strings ==
    [c \in {"coal", "gas"} |->
        IF c = "coal" THEN {"coal", "bit coal"} ELSE {"gas", "nat gas"}]

ferc1_fuel_unit_strings ==
    [c \in {"ton", "mcf"} |->
        IF c = "ton" THEN {"ton", "tons"} ELSE {"mcf", "mcf."}]

ferc1_type_const_strings ==
    [c \in {"outdoor", "conventional"} |->
        IF c = "outdoor" THEN {"outdoor", "out door"}
        ELSE {"conventional", "conv"}]

ferc1_plant_kind_strings ==
    [c \in {"steam", "nuclear"} |->
        IF c = "steam" THEN {"steam", "steam turbine"}
        ELSE {"nuclear", "nuc"}]

\* cleanstrings(field, stringmap, unmapped), on one cell: the category whose
\* spellings hold the string, `unmapped` when none does
cleanstrings(c, stringmap, unmapped) ==
    IF IsNull(c) THEN unmapped
    ELSE IF \E k \in DOMAIN stringmap : c[1] \in stringmap[k]
         THEN Val(CHOOSE k \in DOMAIN stringmap : c[1] \in stringmap[k])
         ELSE unmapped

\* row_number -> FERC account id, of the electric plant accounts; the
\* descriptions are text broken over lines, so with runs of white space
ferc_electric_plant_accounts ==
    << [row_number |-> Val(2), ferc_account_id |-> Val("301"),
        ferc_account_description |-> Val(<<"a", "b">>)],
       [row_number |-> Val(3), ferc_account_id |-> Val("302"),
        ferc_account_description |-> Val(<<"a", " ", " ", "b">>)] >>

\* row_number -> line id, of the accumulated depreciation lines
ferc_accumulated_depreciation ==
    << [row_number |-> Val(1), line_id |-> Val("balance_beginning_of_year"),
        ferc_account_description |-> Val(<<"b", " ", "a">>)],
       [row_number |-> Val(3), line_id |-> Val("depreciation_expense"),
        ferc_account_description |-> Val(<<"1", " ", "b">>)] >>

---------------------------------------------------------------------------
(* What a function call does to the PUDL database.                         *)

\* the call returned, having appended writes[t] to each table t it wrote
Returned(writes) == [raises |-> FALSE, writes |-> writes]

\* the call raised before it wrote anything
Raised == [raises |-> TRUE, writes |-> <<>>]

\* df.to_sql(name, con=engine, if_exists='append'), as what it appends
to_sql(name, df) == [t \in {name} |-> df]

\* two sets of writes to different tables
Both(w1, w2) ==
    [t \in (DOMAIN w1) \cup (DOMAIN w2) |->
        IF t \in DOMAIN w1 THEN w1[t] ELSE w2[t]]

\* SQL's col != '' and col > 0: a NULL satisfies no comparison
NotEmpty(c, empty) == ~IsNull(c) /\ c[1] # empty
Positive(c) == ~IsNull(c) /\ c[1] > 0
\* a selection that takes every report year, which C9 must tell from the
\* real one
InYears_Any(c, years) == ~IsNull(c)

\* SQL's col IN (years)
InYears(c, years) == ~IsNull(c) /\ c[1] \in years


\* pd.merge(left, right, how='left', on=key): each left row with every right
\* row of the same key, or with nulls in the right's columns when there is
\* none; two nulls are the same key
LeftMerge(left, right, key, rightcols) ==
    LET matches(l) == SelectSeq(right, LAMBDA r : r[key] = l[key])
        joined(l, r) ==
            [c \in (DOMAIN l) \cup rightcols |->
                IF c \in DOMAIN l THEN l[c] ELSE r[c]]
        nulls == [c \in rightcols |-> null]
        rowsOf(l) == IF matches(l) = <<>> THEN <<joined(l, nulls)>>
                     ELSE MapRows(LAMBDA r : joined(l, r), matches(l))
        RECURSIVE from(_)
        from(i) == IF i > Len(left) THEN <<>> ELSE rowsOf(left[i]) \o from(i + 1)
    IN  from(1)

---------------------------------------------------------------------------
(* The FERC Form 1 ingest functions.                                       *)

FercBookkeeping ==
    {"spplmnt_num", "row_number", "row_seq", "row_prvlg", "report_prd"}

\* ingest_fuel_ferc1: the frame it hands to to_sql
FuelFerc1Frame(ferc1_engine, ferc1_years) ==
    LET selected == SelectRows(
            LAMBDA r : /\ NotEmpty(r.fuel, "")
                       /\ Positive(r.fuel_quantity)
                       /\ NotEmpty(r.plant_name, <<>>)
                       /\ InYears(r.report_year, ferc1_years),
            ferc1_engine["f1_fuel"])
        clean(r0) ==
            LET r1 == DropCols(r0, FercBookkeeping)
                r2 == [r1 EXCEPT !.plant_name = StripTitle(@)]
                r3 == [r2 EXCEPT
                        !.fuel = cleanstrings(@, ferc1_fuel_strings, null),
                        !.fuel_unit =
                            cleanstrings(@, ferc1_fuel_unit_strings, null)]
                r4 == DropCols(WithCol(r3, "fuel_cost_per_mwh",
                                       Times1000(r3.fuel_cost_kwh)),
                               {"fuel_cost_kwh"})
                r5 == DropCols(WithCol(r4, "fuel_mmbtu_per_mwh",
                                       Times1000(r4.fuel_generaton)),
                               {"fuel_generaton"})
            IN  r5
        renamed(r) == RenameCols(r,
            [c \in {"fuel_quantity", "fuel_avg_heat", "fuel_cost_burned",
                    "fuel_cost_delvd", "fuel_cost_btu"} |->
                CASE c = "fuel_quantity" -> "fuel_qty_burned"
                  [] c = "fuel_avg_heat" -> "fuel_avg_mmbtu_per_unit"
                  [] c = "fuel_cost_burned" -> "fuel_cost_per_unit_burned"
                  [] c = "fuel_cost_delvd" -> "fuel_cost_per_unit_delivered"
                  [] c = "fuel_cost_btu" -> "fuel_cost_per_mmbtu"])
    IN  MapRows(renamed, DropNA(MapRows(clean, selected)))

ingest_fuel_ferc1(ferc1_engine, ferc1_years) ==
    Returned(to_sql("fuel_ferc1", FuelFerc1Frame(ferc1_engine, ferc1_years)))

\* ingest_plants_steam_ferc1: the rows its SELECT returns
SteamSelected(ferc1_engine, ferc1_years) ==
    SelectRows(
        LAMBDA r : /\ Positive(r.net_generation)
                   /\ NotEmpty(r.plant_name, <<>>)
                   /\ InYears(r.report_year, ferc1_years),
        ferc1_engine["f1_steam"])

\* ingest_plants_steam_ferc1: what it makes of one selected row
SteamRow(r0) ==
    LET r1 == DropCols(r0, FercBookkeeping)
        r2 == [r1 EXCEPT !.plant_name = StripTitle(@)]
        r3 == [r2 EXCEPT
                !.type_const = cleanstrings(@, ferc1_type_const_strings, null),
                !.plant_kind = cleanstrings(@, ferc1_plant_kind_strings, null)]
        r4 == [r3 EXCEPT !.yr_const = ToNumeric(@),
                         !.yr_installed = ToNumeric(@)]
        r5 == DropCols(WithCol(r4, "cost_per_mw", Times1000(r4.cost_per_kw)),
                       {"cost_per_kw"})
        r6 == DropCols(WithCol(r5, "net_generation_mwh",
                               Times1000(r5.net_generation)),
                       {"net_generation"})
        r7 == DropCols(WithCol(r6, "expns_per_mwh", Times1000(r6.expns_kwh)),
                       {"expns_kwh"})
    IN  RenameCols(r7,
            [c \in {"yr_const", "yr_installed", "tot_capacity", "peak_demand",
                    "plnt_capability", "when_limited", "when_not_limited",
                    "avg_num_of_emp", "net_generation", "cost_of_plant_to",
                    "expns_steam_othr", "expns_engnr", "tot_prdctn_expns"} |->
                CASE c = "yr_const" -> "year_constructed"
                  [] c = "yr_installed" -> "year_installed"
                  [] c = "tot_capacity" -> "total_capacity_mw"
                  [] c = "peak_demand" -> "peak_demand_mw"
                  [] c = "plnt_capability" -> "plant_capability_mw"
                  [] c = "when_limited" -> "water_limited_mw"
                  [] c = "when_not_limited" -> "not_water_limited_mw"
                  [] c = "avg_num_of_emp" -> "avg_num_employees"
                  [] c = "net_generation" -> "net_generation_mwh"
                  [] c = "cost_of_plant_to" -> "cost_of_plant_total"
                  [] c = "expns_steam_othr" -> "expns_steam_other"
                  [] c = "expns_engnr" -> "expns_engineering"
                  [] c = "tot_prdctn_expns" -> "expns_production_total"])

\* ingest_plants_steam_ferc1: the frame it hands to to_sql
\* a steam frame that drops the rows with an unmapped category, which C6
\* must tell from the real one
SteamFerc1Frame_DropUnmapped(ferc1_engine, ferc1_years) ==
    DropNASubset(MapRows(SteamRow, SteamSelected(ferc1_engine, ferc1_years)),
                 {"type_const", "plant_kind"})

SteamFerc1Frame(ferc1_engine, ferc1_years) ==
    MapRows(SteamRow, SteamSelected(ferc1_engine, ferc1_years))

\* a steam ingest that raises on a year that is not a number, as to_numeric
\* does without errors='coerce', which C7 must tell from the real one
ingest_plants_steam_ferc1_Strict(ferc1_engine, ferc1_years) ==
    IF \E r \in Range(SteamFerc1Frame(ferc1_engine, ferc1_years)) :
            IsNull(r.year_constructed) \/ IsNull(r.year_installed)
    THEN Raised
    ELSE Returned(to_sql("plants_steam_ferc1",
                         SteamFerc1Frame(ferc1_engine, ferc1_years)))

ingest_plants_steam_ferc1(ferc1_engine, ferc1_years) ==
    Returned(to_sql("plants_steam_ferc1",
                    SteamFerc1Frame(ferc1_engine, ferc1_years)))

\* ingest_plants_hydro_ferc1: the frame it hands to to_sql
HydroFerc1Frame(ferc1_engine, ferc1_years) ==
    LET selected == SelectRows(
            LAMBDA r : /\ NotEmpty(r.plant_name, <<>>)
                       /\ InYears(r.report_year, ferc1_years),
            ferc1_engine["f1_hydro"])
        clean(r0) ==
            LET r1 == DropCols(r0, FercBookkeeping)
                r2 == [r1 EXCEPT !.plant_name = StripTitle(@)]
                r3 == DropCols(WithCol(r2, "net_generation_mwh",
                                       Over1000(r2.net_generation)),
                               {"net_generation"})
                r4 == DropCols(WithCol(r3, "cost_per_mw",
                                       Times1000(r3.cost_per_kw)),
                               {"cost_per_kw"})
                r5 == DropCols(WithCol(r4, "expns_per_mwh",
                                       Times1000(r4.expns_kwh)),
                               {"expns_kwh"})
            IN  [r5 EXCEPT !.yr_const = ToNumeric(@),
                           !.yr_installed = ToNumeric(@)]
        renamed(r) == RenameCols(r,
            [c \in {"project_no", "yr_const", "plant_const", "yr_installed",
                    "tot_capacity", "peak_demand", "plant_hours",
                    "favorable_cond", "adverse_cond", "avg_num_of_emp",
                    "cost_of_land", "expns_engnr", "expns_total"} |->
                CASE c = "project_no" -> "project_number"
                  [] c = "yr_const" -> "year_constructed"
                  [] c = "plant_const" -> "plant_construction"
                  [] c = "yr_installed" -> "year_installed"
                  [] c = "tot_capacity" -> "total_capacity_mw"
                  [] c = "peak_demand" -> "peak_demand_mw"
                  [] c = "plant_hours" ->
                        "plant_hours_connected_while_generating"
                  [] c = "favorable_cond" ->
                        "net_capacity_favorable_conditions_mw"
                  [] c = "adverse_cond" -> "net_capacity_adverse_conditions_mw"
                  [] c = "avg_num_of_emp" -> "avg_number_employees"
                  [] c = "cost_of_land" -> "cost_land"
                  [] c = "expns_engnr" -> "expns_engineering"
                  [] c = "expns_total" -> "expns_production_total"])
    IN  MapRows(renamed, DropNA(MapRows(clean, selected)))

ingest_plants_hydro_ferc1(ferc1_engine, ferc1_years) ==
    Returned(to_sql("plants_hydro_ferc1",
                    HydroFerc1Frame(ferc1_engine, ferc1_years)))

\* ingest_plants_pumped_storage_ferc1: the frame it hands to to_sql.  Each
\* of the four conversions after net_generation adds the converted column
\* and then drops that same column; the rename is not in place and its
\* result is discarded.
PumpedStorageFerc1Frame(ferc1_engine, ferc1_years) ==
    LET selected == SelectRows(
            LAMBDA r : /\ NotEmpty(r.plant_name, <<>>)
                       /\ InYears(r.report_year, ferc1_years),
            ferc1_engine["f1_pumped_storage"])
        clean(r0) ==
            LET r1 == DropCols(r0, FercBookkeeping)
                r2 == [r1 EXCEPT !.plant_name = StripTitle(@)]
                r3 == DropCols(WithCol(r2, "net_generation_mwh",
                                       Over1000(r2.net_generation)),
                               {"net_generation"})
                r4 == DropCols(WithCol(r3, "energy_used_for_pumping_mwh",
                                       Over1000(r3.energy_used)),
                               {"energy_used_for_pumping_mwh"})
                r5 == DropCols(WithCol(r4, "net_load_mwh",
                                       Over1000(r4.net_load)),
                               {"net_load_mwh"})
                r6 == DropCols(WithCol(r5, "cost_per_mw",
                                       Times1000(r5.cost_per_kw)),
                               {"cost_per_mw"})
                r7 == DropCols(WithCol(r6, "expns_per_mwh",
                                       Times1000(r6.expns_kwh)),
                               {"expns_per_mwh"})
            IN  r7
    IN  DropNA(MapRows(clean, selected))

ingest_plants_pumped_storage_ferc1(ferc1_engine, ferc1_years) ==
    Returned(to_sql("plants_pumped_storage_ferc1",
                    PumpedStorageFerc1Frame(ferc1_engine, ferc1_years)))

\* constants_df.drop(['ferc_account_description']), .dropna(), row_number as int
AccountLines(constants_df) ==
    DropNA(MapRows(LAMBDA r : DropCols(r, {"ferc_account_description"}),
                   constants_df))

\* ingest_accumulated_depreciation_ferc1: the frame it hands to to_sql
AccumulatedDepreciationFerc1Frame(ferc1_engine, ferc1_years) ==
    LET selected == SelectRows(
            LAMBDA r : InYears(r.report_year, ferc1_years),
            ferc1_engine["f1_accumdepr_prvsn"])
        ferc1_apd_df == MapRows(
            LAMBDA r : DropCols(r, {"spplmnt_num", "row_seq", "row_prvlg",
                                    "item", "report_prd"}),
            selected)
        merged == LeftMerge(ferc1_apd_df,
                            AccountLines(ferc_accumulated_depreciation),
                            "row_number", {"line_id"})
    IN  MapRows(LAMBDA r : DropCols(r, {"row_number"}), merged)

ingest_accumulated_depreciation_ferc1(ferc1_engine, ferc1_years) ==
    Returned(to_sql("accumulated_depreciation_ferc1",
        AccumulatedDepreciationFerc1Frame(ferc1_engine, ferc1_years)))

\* ingest_plant_in_service_ferc1: the frame it hands to to_sql
PlantInServiceFerc1Frame(ferc1_engine, ferc1_years) ==
    LET selected == SelectRows(
            LAMBDA r : InYears(r.report_year, ferc1_years),
            ferc1_engine["f1_plant_in_srvce"])
        ferc1_pis_df == MapRows(
            LAMBDA r : DropCols(r, {"spplmnt_num", "row_seq", "row_prvlg",
                                    "report_prd"}),
            selected)
        merged == LeftMerge(ferc1_pis_df,
                            AccountLines(ferc_electric_plant_accounts),
                            "row_number", {"ferc_account_id"})
        renamed(r) == RenameCols(DropCols(r, {"row_number"}),
            [c \in {"begin_yr_bal", "addition", "yr_end_bal"} |->
                CASE c = "begin_yr_bal" -> "beginning_year_balance"
                  [] c = "addition" -> "additions"
                  [] c = "yr_end_bal" -> "year_end_balance"])
    IN  MapRows(renamed, merged)

ingest_plant_in_service_ferc1(ferc1_engine, ferc1_years) ==
    Returned(to_sql("plant_in_service_ferc1",
                    PlantInServiceFerc1Frame(ferc1_engine, ferc1_years)))

\* ingest_plants_small_ferc1: its SELECT names f1_gnrt_plant, which is bound
\* nowhere (the table object is f1_small_table), so the call raises NameError
\* before it reads or writes anything
ingest_plants_small_ferc1(ferc1_engine, ferc1_years) == Raised

\* the columns of f1_purchased_pwr that hold text
PurchasedPowerTextCols ==
    {"athrty_co_name", "sttstcl_clssfctn", "rtsched_trffnbr"}

\* df.replace(to_replace='', value=np.nan), on one row: only a text cell can
\* be the empty string
EmptyToNaN(r) ==
    [c \in DOMAIN r |->
        IF c \in PurchasedPowerTextCols /\ r[c] = Val("") THEN null ELSE r[c]]

\* ingest_purchased_power_ferc1: the frame it hands to to_sql
PurchasedPowerFerc1Frame(ferc1_engine, ferc1_years) ==
    LET selected == SelectRows(
            LAMBDA r : InYears(r.report_year, ferc1_years),
            ferc1_engine["f1_purchased_pwr"])
        clean(r) == EmptyToNaN(DropCols(r, FercBookkeeping))
        kept == DropNASubset(MapRows(clean, selected),
                             {"sttstcl_clssfctn", "rtsched_trffnbr"})
        renamed(r) == RenameCols(r,
            [c \in {"athrty_co_name", "sttstcl_clssfctn", "rtsched_trffnbr",
                    "avgmth_bill_dmnd", "avgmth_ncp_dmnd", "avgmth_cp_dmnd",
                    "mwh_recv", "mwh_delvd", "dmnd_charges", "erg_charges",
                    "othr_charges", "settlement_tot"} |->
                CASE c = "athrty_co_name" -> "authority_company_name"
                  [] c = "sttstcl_clssfctn" -> "statistical_classification"
                  [] c = "rtsched_trffnbr" -> "rate_schedule_tariff_number"
                  [] c = "avgmth_bill_dmnd" -> "average_billing_demand"
                  [] c = "avgmth_ncp_dmnd" -> "average_monthly_ncp_demand"
                  [] c = "avgmth_cp_dmnd" -> "average_monthly_cp_demand"
                  [] c = "mwh_recv" -> "mwh_received"
                  [] c = "mwh_delvd" -> "mwh_delivered"
                  [] c = "dmnd_charges" -> "demand_charges"
                  [] c = "erg_charges" -> "energy_charges"
                  [] c = "othr_charges" -> "other_charges"
                  [] c = "settlement_tot" -> "settlement_total"])
    IN  MapRows(renamed, kept)

ingest_purchased_power_ferc1(ferc1_engine, ferc1_years) ==
    Returned(to_sql("purchased_power_ferc1",
                    PurchasedPowerFerc1Frame(ferc1_engine, ferc1_years)))

---------------------------------------------------------------------------
(* pudl.eia923: reading the EIA 923 spreadsheet.                           *)

\* month number -> the suffix of that month's columns; the model keeps two
\* months of the twelve
month_dict_2015_eia923 == <<"january", "february">>

\* get_eia923_page(page, years): the rows of the page for the years asked
get_eia923_page(xlsx, page, years) ==
    SelectRows(LAMBDA r : InYears(r.year, years), xlsx[page])

\* the columns of a page that hold one value per month: such a cell of the
\* model is the tuple of the month columns' cells
MonthlyCols ==
    {"netgen", "quantity_of_fuel_consumed", "net_generation"}

\* yearly_to_monthly_eia923(df, month_dict): one record per month for each
\* yearly record, the month columns folded into one column and a month
\* column added
yearly_to_monthly_eia923(df, month_dict) ==
    LET monthly(r, m) ==
            [c \in (DOMAIN r) \cup {"month"} |->
                IF c = "month" THEN Val(m)
                ELSE IF c \in MonthlyCols THEN r[c][m]
                ELSE r[c]]
        rowsOf(r) == [m \in DOMAIN month_dict |-> monthly(r, m)]
        RECURSIVE from(_)
        from(i) == IF i > Len(df) THEN <<>> ELSE rowsOf(df[i]) \o from(i + 1)
    IN  from(1)

---------------------------------------------------------------------------
(* The EIA 923 ingest functions.                                           *)

\* the columns of the EIA 923 pages that hold numbers, not text
EiaNumericCols == {"year", "month", "plant_id", "operator_id"}

\* df.replace(to_replace='^\.$', value=np.nan, regex=True), on one row: every
\* text cell that is exactly "." becomes NaN
DotToNaN(r) ==
    [c \in DOMAIN r |->
        IF c \notin EiaNumericCols /\ r[c] = Val(".") THEN null ELSE r[c]]

\* df[df.plant_id != n]: NaN != n is True in pandas
PlantIdIsNot(r, n) == r.plant_id # Val(n)

\* a left merge in the place of the outer merge, which C22 must tell from
\* the real one
OuterMerge_LeftOnly(left, right, key, leftcols, rightcols) ==
    LeftMerge(left, right, key, rightcols \ {key})

\* pd.merge(left, right, how='outer', on=key), of two frames that each hold
\* a key at most once
OuterMerge(left, right, key, leftcols, rightcols) ==
    LET leftOnly == [c \in leftcols \ {key} |-> null]
        unmatched == SelectSeq(right,
            LAMBDA r : \A i \in 1..Len(left) : left[i][key] # r[key])
        fromRight(r) ==
            [c \in leftcols \cup rightcols |->
                IF c \in DOMAIN r THEN r[c] ELSE leftOnly[c]]
    IN  LeftMerge(left, right, key, rightcols \ {key})
            \o MapRows(fromRight, unmatched)

\* ingest_plant_info_eia923: the frame it hands to to_sql
PlantInfoEia923Frame(dfs) ==
    LET plant_frame_cols ==
            {"plant_id", "plant_state", "combined_heat_and_power_status",
             "sector_number", "naics_code", "reporting_frequency"}
        gen_fuel_cols == {"plant_id", "census_region", "nerc_region"}
        plant_frame_df ==
            MapRows(LAMBDA r : Project(r, plant_frame_cols), dfs["plant_frame"])
        gen_fuel_df ==
            SelectRows(LAMBDA r : PlantIdIsNot(r, 99999),
                MapRows(LAMBDA r : Project(r, gen_fuel_cols),
                        dfs["generation_fuel"]))
        plant_info_df ==
            OuterMerge(DropDuplicates(plant_frame_df, {"plant_id"}),
                       DropDuplicates(gen_fuel_df, {"plant_id"}),
                       "plant_id", plant_frame_cols, gen_fuel_cols)
        boolean(c) == CASE c = Val("N") -> Val(FALSE)
                         [] c = Val("Y") -> Val(TRUE)
                         [] OTHER -> c
        clean(r) ==
            RenameCols(
                [r EXCEPT !.combined_heat_and_power_status = boolean(@)],
                [c \in {"combined_heat_and_power_status", "sector_number"} |->
                    IF c = "sector_number" THEN "eia_sector"
                    ELSE "combined_heat_power"])
    IN  MapRows(clean, plant_info_df)

ingest_plant_info_eia923(eia923_dfs_) ==
    Returned(to_sql("plant_info_eia923", PlantInfoEia923Frame(eia923_dfs_)))

\* ingest_generation_fuel_eia923: the frame it hands to to_sql
GenerationFuelEia923Frame(dfs) ==
    LET cols_to_drop ==
            {"combined_heat_and_power_plant", "plant_name", "operator_name",
             "operator_id", "plant_state", "census_region", "nerc_region",
             "naics_code", "eia_sector_number", "sector_name",
             "physical_unit_label", "total_fuel_consumption_quantity",
             "electric_fuel_consumption_quantity",
             "total_fuel_consumption_mmbtu", "elec_fuel_consumption_mmbtu",
             "net_generation_megawatthours"}
        gf1 == MapRows(LAMBDA r : DropCols(r, cols_to_drop),
                       dfs["generation_fuel"])
        gf2 == MapRows(DotToNaN,
                       yearly_to_monthly_eia923(gf1, month_dict_2015_eia923))
        gf3 == SelectRows(LAMBDA r : PlantIdIsNot(r, 99999), gf2)
        renamed(r) == RenameCols(r,
            [c \in {"reported_prime_mover", "reported_fuel_type_code",
                    "aer_fuel_type_code", "quantity", "elec_quantity",
                    "mmbtuper_unit", "tot_mmbtu", "elec_mmbtu", "netgen"} |->
                CASE c = "reported_prime_mover" -> "prime_mover"
                  [] c = "reported_fuel_type_code" -> "fuel_type"
                  [] c = "aer_fuel_type_code" -> "aer_fuel_type"
                  [] c = "quantity" -> "fuel_consumed_total"
                  [] c = "elec_quantity" -> "fuel_consumed_for_electricity"
                  [] c = "mmbtuper_unit" -> "fuel_mmbtu_per_unit"
                  [] c = "tot_mmbtu" -> "fuel_consumed_total_mmbtu"
                  [] c = "elec_mmbtu" -> "fuel_consumed_for_electricity_mmbtu"
                  [] c = "netgen" -> "net_generation_mwh"])
    IN  MapRows(renamed, gf3)

\* a generation fuel ingest that writes to a second table, which C5 must
\* tell from the real one
ingest_generation_fuel_eia923_AlsoPlantInfo(eia923_dfs_) ==
    Returned(Both(to_sql("generation_fuel_eia923",
                         GenerationFuelEia923Frame(eia923_dfs_)),
                  to_sql("plant_info_eia923",
                         GenerationFuelEia923Frame(eia923_dfs_))))

ingest_generation_fuel_eia923(eia923_dfs_) ==
    Returned(to_sql("generation_fuel_eia923",
                    GenerationFuelEia923Frame(eia923_dfs_)))

\* ingest_boiler_fuel_eia923: the frame it hands to to_sql for boilers_eia923
BoilersEia923Frame(dfs) ==
    LET boiler_cols == {"plant_id", "boiler_id", "reported_prime_mover"}
        boilers_df ==
            DropDuplicates(
                MapRows(LAMBDA r : Project(r, boiler_cols), dfs["boiler_fuel"]),
                {"plant_id", "boiler_id"})
        renamed(r) == RenameCols(r,
            [c \in {"reported_prime_mover"} |-> "prime_mover"])
    IN  DropNASubset(MapRows(renamed, boilers_df), {"boiler_id", "plant_id"})

\* ingest_boiler_fuel_eia923: the frame it hands to to_sql for
\* boiler_fuel_eia923
BoilerFuelEia923Frame(dfs) ==
    LET cols_to_drop ==
            {"combined_heat_and_power_plant", "plant_name", "operator_name",
             "operator_id", "plant_state", "census_region", "nerc_region",
             "naics_code", "sector_number", "sector_name",
             "physical_unit_label", "total_fuel_consumption_quantity"}
        bf1 == MapRows(LAMBDA r : DropCols(r, cols_to_drop), dfs["boiler_fuel"])
        bf2 == DropNASubset(bf1, {"boiler_id", "plant_id"})
        bf3 == MapRows(DotToNaN,
                       yearly_to_monthly_eia923(bf2, month_dict_2015_eia923))
        renamed(r) == RenameCols(r,
            [c \in {"reported_prime_mover", "reported_fuel_type_code",
                    "quantity_of_fuel_consumed", "mmbtu_per_unit"} |->
                CASE c = "reported_prime_mover" -> "prime_mover"
                  [] c = "reported_fuel_type_code" -> "fuel_type"
                  [] c = "quantity_of_fuel_consumed" -> "fuel_qty_consumed"
                  [] c = "mmbtu_per_unit" -> "fuel_mmbtu_per_unit"])
    IN  MapRows(renamed, bf3)

ingest_boiler_fuel_eia923(eia923_dfs_) ==
    Returned(Both(to_sql("boilers_eia923", BoilersEia923Frame(eia923_dfs_)),
                  to_sql("boiler_fuel_eia923",
                         BoilerFuelEia923Frame(eia923_dfs_))))

\* ingest_generator_eia923: the frame it hands to to_sql for generators_eia923
GeneratorsEia923Frame(dfs) ==
    LET generator_cols == {"plant_id", "generator_id", "reported_prime_mover"}
        generators_df ==
            DropDuplicates(
                MapRows(LAMBDA r : Project(r, generator_cols),
                        dfs["generator"]),
                {"plant_id", "generator_id"})
        renamed(r) == RenameCols(r,
            [c \in {"reported_prime_mover"} |-> "prime_mover"])
    IN  DropNASubset(MapRows(renamed, generators_df),
                     {"generator_id", "plant_id"})

\* ingest_generator_eia923: the frame it hands to to_sql for generation_eia923
GenerationEia923Frame(dfs) ==
    LET cols_to_drop ==
            {"combined_heat_and_power_plant", "plant_name", "operator_name",
             "operator_id", "plant_state", "census_region", "nerc_region",
             "naics_code", "sector_number", "sector_name",
             "net_generation_year_to_date"}
        g1 == MapRows(LAMBDA r : DropCols(r, cols_to_drop), dfs["generator"])
        g2 == MapRows(DotToNaN,
                      yearly_to_monthly_eia923(g1, month_dict_2015_eia923))
        renamed(r) == RenameCols(r,
            [c \in {"reported_prime_mover", "net_generation"} |->
                IF c = "net_generation" THEN "net_generation_mwh"
                ELSE "prime_mover"])
    IN  MapRows(renamed, g2)

ingest_generator_eia923(eia923_dfs_) ==
    Returned(Both(to_sql("generators_eia923",
                         GeneratorsEia923Frame(eia923_dfs_)),
                  to_sql("generation_eia923",
                         GenerationEia923Frame(eia923_dfs_))))

\* ingest_fuel_receipts_costs_eia923: the frame it hands to to_sql for
\* coalmine_info_eia923
CoalmineInfoEia923Frame(dfs) ==
    MapRows(LAMBDA r : Project(r, {"coalmine_name", "coalmine_type",
                                   "coalmine_state", "coalmine_county",
                                   "coalmine_msha_id"}),
            dfs["fuel_receipts_costs"])

\* ingest_fuel_receipts_costs_eia923: the frame it hands to to_sql for
\* fuel_receipts_costs_eia923
FuelReceiptsCostsEia923Frame(dfs) ==
    LET cols_to_drop ==
            {"plant_name", "plant_state", "operator_name", "operator_id",
             "fuel_group", "coalmine_name", "coalmine_type", "coalmine_state",
             "coalmine_county", "regulated", "reporting_frequency"}
        frc1 == MapRows(LAMBDA r : DropCols(r, cols_to_drop),
                        dfs["fuel_receipts_costs"])
        frc2 == SelectRows(LAMBDA r : PlantIdIsNot(r, 8899), frc1)
        renamed(r) == RenameCols(r,
            [c \in {"purchase_type", "reported_prime_mover", "quantity",
                    "natural_gas_transportation_service"} |->
                CASE c = "purchase_type" -> "contract_type"
                  [] c = "reported_prime_mover" -> "prime_mover"
                  [] c = "quantity" -> "qty"
                  [] c = "natural_gas_transportation_service" ->
                        "natural_gas_transport"])
    IN  MapRows(renamed, MapRows(DotToNaN, frc2))

ingest_fuel_receipts_costs_eia923(eia923_dfs_) ==
    Returned(Both(to_sql("coalmine_info_eia923",
                         CoalmineInfoEia923Frame(eia923_dfs_)),
                  to_sql("fuel_receipts_costs_eia923",
                         FuelReceiptsCostsEia923Frame(eia923_dfs_))))

\* ingest_stocks_eia923: pass
ingest_stocks_eia923(eia923_dfs_) == Returned(<<>>)

---------------------------------------------------------------------------
(* The static tables.                                                      *)

\* the dictionaries and lists of pudl.constants that fill the static tables,
\* each cut to a few entries: abbreviation -> name
us_states == [k \in {"CO", "WY"} |-> IF k = "CO" THEN "Colorado" ELSE "Wyoming"]
rto_iso == [k \in {"PJM"} |-> "PJM Interconnection"]
census_region == [k \in {"MTN"} |-> "Mountain"]
nerc_region == [k \in {"WECC"} |-> "Western Electricity Coordinating Council"]
respondent_frequency_eia923 == [k \in {"M", "A"} |->
    IF k = "M" THEN "Monthly respondent" ELSE "Annual respondent"]
sector_eia == [k \in {"1"} |-> "Electric Utility"]
fuel_type_eia923 == [k \in {"BIT"} |-> "Bituminous Coal"]
prime_movers_eia923 == [k \in {"ST"} |-> "Steam Turbine"]
fuel_units_eia923 == [k \in {"tons"} |-> "short tons (solid fuels)"]
fuel_type_aer_eia923 == [k \in {"COL"} |-> "Coal"]
energy_source_eia923 == [k \in {"NG"} |-> "Natural Gas"]
coalmine_type_eia923 == [k \in {"S"} |-> "Surface"]
coalmine_state_eia923 == [k \in {"AU"} |-> "Australia"]
transport_modes_eia923 == [k \in {"RR"} |-> "Rail"]
natural_gas_transport_eia923 == [k \in {"F"} |-> "Firm"]
prime_movers == {"steam_turbine", "hydro"}
fuel_group_eia923 == {"coal", "natural_gas"}

\* [Model(k1=k, k2=v) for k, v in d.items()]
ItemRows(d, k1, k2) ==
    SetToSeq({[c \in {k1, k2} |-> IF c = k1 THEN Val(k) ELSE Val(d[k])] :
              k \in DOMAIN d})

\* [Model(k1=x) for x in xs]
KeyRows(xs, k1) == SetToSeq({[c \in {k1} |-> Val(x)] : x \in xs})

RECURSIVE CollapseSpaces(_)
\* str.replace('\s+', ' '): every run of white space becomes one space
CollapseSpaces(s) ==
    IF Len(s) < 2 THEN s
    ELSE IF s[1] = " " /\ s[2] = " " THEN CollapseSpaces(Tail(s))
         ELSE <<s[1]>> \o CollapseSpaces(Tail(s))

\* ingest_static_tables: the constants it adds, one table per ORM class, and
\* the two frames it appends with to_sql
StaticTableRows ==
    [Fuel |-> KeyRows(DOMAIN ferc1_fuel_strings, "name"),
     FuelUnit |-> KeyRows(DOMAIN ferc1_fuel_unit_strings, "unit"),
     Month |-> [i \in 1..12 |-> [month |-> Val(i)]],
     Quarter |-> [i \in 1..4 |-> [q |-> Val(i), end_month |-> Val(3 * i)]],
     PrimeMover |-> KeyRows(prime_movers, "prime_mover"),
     RTOISO |-> ItemRows(rto_iso, "abbr", "name"),
     Year |-> [i \in 1..(2017 - 1994) |-> [year |-> Val(1993 + i)]],
     CensusRegion |-> ItemRows(census_region, "abbr", "name"),
     NERCRegion |-> ItemRows(nerc_region, "abbr", "name"),
     RespondentFrequencyEIA923 |->
        ItemRows(respondent_frequency_eia923, "abbr", "unit"),
     SectorEIA |-> ItemRows(sector_eia, "id", "name"),
     FuelTypeEIA923 |-> ItemRows(fuel_type_eia923, "abbr", "fuel_type"),
     PrimeMoverEIA923 |-> ItemRows(prime_movers_eia923, "abbr", "prime_mover"),
     FuelUnitEIA923 |-> ItemRows(fuel_units_eia923, "abbr", "unit"),
     FuelTypeAER |-> ItemRows(fuel_type_aer_eia923, "abbr", "fuel_type"),
     EnergySourceEIA923 |-> ItemRows(energy_source_eia923, "abbr", "source"),
     FuelGroupEIA923 |-> KeyRows(fuel_group_eia923, "group"),
     CoalMineTypeEIA923 |-> ItemRows(coalmine_type_eia923, "abbr", "name"),
     CoalMineStateEIA923 |->
        ItemRows(coalmine_state_eia923, "abbr", "state")
            \o ItemRows(us_states, "abbr", "state"),
     TransportModeEIA923 |-> ItemRows(transport_modes_eia923, "abbr", "mode"),
     NaturalGasTransportEIA923 |->
        ItemRows(natural_gas_transport_eia923, "abbr", "status"),
     State |-> ItemRows(us_states, "abbr", "name"),
     ferc_accounts |->
        MapRows(LAMBDA r :
                    RenameCols(
                        [DropCols(r, {"row_number"}) EXCEPT
                            !.ferc_account_description =
                                Val(CollapseSpaces(@[1]))],
                        [c \in {"ferc_account_id",
                                "ferc_account_description"} |->
                            IF c = "ferc_account_id" THEN "id"
                            ELSE "description"]),
                ferc_electric_plant_accounts),
     ferc_depreciation_lines |->
        MapRows(LAMBDA r :
                    RenameCols(DropCols(r, {"row_number"}),
                        [c \in {"line_id", "ferc_account_description"} |->
                            IF c = "line_id" THEN "id" ELSE "description"]),
                ferc_accumulated_depreciation)]

ingest_static_tables == Returned(StaticTableRows)

---------------------------------------------------------------------------
(* The glue tables.                                                        *)

\* ingest_glue_tables: the plants_output sheet with plant_name_ferc1
\* stripped and title-cased
GluePlantMap(map_file) ==
    MapRows(LAMBDA r : [r EXCEPT !.plant_name_ferc1 = StripTitle(@)],
            map_file.plants_output)

\* a plants frame that keeps one row for each plant name instead of one for
\* each PUDL plant id, which C11 must tell from the real one
GluePlants_ByName(map_file) ==
    DropDuplicates(MapRows(LAMBDA r : Project(r, {"plant_id", "plant_name"}),
                           GluePlantMap(map_file)), {"plant_name"})

\* ingest_glue_tables: plants, the PUDL plant ids and names of the
\* plants_output sheet, one row for each id
GluePlants(map_file) ==
    DropDuplicates(MapRows(LAMBDA r : Project(r, {"plant_id", "plant_name"}),
                           GluePlantMap(map_file)), {"plant_id"})

\* ingest_glue_tables: the six frames it cuts out of the two sheets, each
\* with its duplicates dropped, as they are before the check for nulls
GlueFrames(map_file) ==
    LET plant_map == GluePlantMap(map_file)
        utility_map == map_file.utilities_output
        cut(df, cols, key) ==
            DropDuplicates(MapRows(LAMBDA r : Project(r, cols), df), key)
    IN  [plants |-> GluePlants(map_file),
         plants_eia923 |->
            cut(plant_map,
                {"plant_id_eia923", "plant_name_eia923", "plant_id"},
                {"plant_id_eia923"}),
         plants_ferc1 |->
            cut(plant_map,
                {"plant_name_ferc1", "respondent_id_ferc1", "plant_id"},
                {"plant_name_ferc1", "respondent_id_ferc1"}),
         utilities |->
            cut(utility_map, {"utility_id", "utility_name"}, {"utility_id"}),
         utilities_eia923 |->
            cut(utility_map,
                {"operator_id_eia923", "operator_name_eia923", "utility_id"},
                {"operator_id_eia923"}),
         utilities_ferc1 |->
            cut(utility_map,
                {"respondent_id_ferc1", "respondent_name_ferc1", "utility_id"},
                {"respondent_id_ferc1"})]

\* ingest_glue_tables: utility_plant_assn, the plants of every utility: the
\* two joins on the FERC respondent and the EIA operator, concatenated, cut
\* to the two ids, rows with a null and duplicates dropped
UtilityPlantAssn(map_file) ==
    LET plant_map == GluePlantMap(map_file)
        frames == GlueFrames(map_file)
        plants_respondents ==
            MapRows(LAMBDA r : Project(r, {"plant_id", "respondent_id_ferc1"}),
                    plant_map)
        plants_operators ==
            MapRows(LAMBDA r : Project(r, {"plant_id", "operator_id_eia923"}),
                    plant_map)
        utility_plant_ferc1 ==
            LeftMerge(frames.utilities_ferc1, plants_respondents,
                      "respondent_id_ferc1", {"plant_id"})
        utility_plant_eia923 ==
            LeftMerge(frames.utilities_eia923, plants_operators,
                      "operator_id_eia923", {"plant_id"})
        both == MapRows(LAMBDA r : Project(r, {"plant_id", "utility_id"}),
                        utility_plant_eia923 \o utility_plant_ferc1)
    IN  DropDuplicates(DropNA(both), {"plant_id", "utility_id"})

\* the frames the sanity assertion of ingest_glue_tables looks at, in order
GlueChecked ==
    <<"plants_eia923", "plants_ferc1", "utilities_eia923", "utilities_ferc1">>

\* an assertion that passes whatever the frames hold, which C14 must tell
\* from the real one
GlueAssertionHolds_Always(map_file) == GlueChecked # <<>>

\* assert df[pd.isnull(df).any(axis=1)].shape[0] <= 1, for each checked frame
GlueAssertionHolds(map_file) ==
    \A i \in 1..Len(GlueChecked) :
        Len(SelectSeq(GlueFrames(map_file)[GlueChecked[i]], HasNull)) <= 1

\* ingest_glue_tables: what it appends to each glue table once the
\* assertion has passed
GlueWrites(map_file) ==
    LET frames == GlueFrames(map_file)
        \* df.dropna(inplace=True), in the loop of the assertion
        checked(name) == DropNA(frames[name])
        rename(df, old, new) ==
            MapRows(LAMBDA r :
                RenameCols(r, [c \in Range(old) |->
                    new[CHOOSE i \in 1..Len(old) : old[i] = c]]), df)
    IN  [plants |->
            rename(frames.plants, <<"plant_id", "plant_name">>,
                   <<"id", "name">>),
         utilities |->
            rename(frames.utilities, <<"utility_id", "utility_name">>,
                   <<"id", "name">>),
         utilities_eia923 |->
            rename(checked("utilities_eia923"),
                   <<"operator_id_eia923", "operator_name_eia923",
                     "utility_id">>,
                   <<"operator_id", "operator_name", "util_id_pudl">>),
         utilities_ferc1 |->
            rename(checked("utilities_ferc1"),
                   <<"respondent_id_ferc1", "respondent_name_ferc1",
                     "utility_id">>,
                   <<"respondent_id", "respondent_name", "util_id_pudl">>),
         plants_eia923 |->
            rename(checked("plants_eia923"),
                   <<"plant_id_eia923", "plant_name_eia923", "plant_id">>,
                   <<"plant_id", "plant_name", "plant_id_pudl">>),
         plants_ferc1 |->
            rename(checked("plants_ferc1"),
                   <<"respondent_id_ferc1", "plant_name_ferc1", "plant_id">>,
                   <<"respondent_id", "plant_name", "plant_id_pudl">>),
         util_plant_assn |-> UtilityPlantAssn(map_file)]

\* an ingest_glue_tables that writes plants before it checks the frames,
\* which C15 must tell from the real one
ingest_glue_tables_WritesFirst(map_file) ==
    IF GlueAssertionHolds(map_file) THEN Returned(GlueWrites(map_file))
    ELSE [raises |-> TRUE,
          writes |-> to_sql("plants", GlueWrites(map_file).plants)]

\* ingest_glue_tables: the assertion fails before anything is written
ingest_glue_tables(map_file) ==
    IF GlueAssertionHolds(map_file) THEN Returned(GlueWrites(map_file))
    ELSE Raised

---------------------------------------------------------------------------
(* init_db.                                                                *)

\* the keys of ferc1_ingest_functions and the function each one names
Ferc1IngestKeys ==
    {"f1_fuel", "f1_steam", "f1_gnrt_plant", "f1_hydro", "f1_pumped_storage",
     "f1_plant_in_srvce", "f1_purchased_pwr", "f1_accumdepr_prvsn"}

ferc1_ingest_functions(table, ferc1_engine, ferc1_years) ==
    CASE table = "f1_fuel" -> ingest_fuel_ferc1(ferc1_engine, ferc1_years)
      [] table = "f1_steam" ->
            ingest_plants_steam_ferc1(ferc1_engine, ferc1_years)
      [] table = "f1_gnrt_plant" ->
            ingest_plants_small_ferc1(ferc1_engine, ferc1_years)
      [] table = "f1_hydro" ->
            ingest_plants_hydro_ferc1(ferc1_engine, ferc1_years)
      [] table = "f1_pumped_storage" ->
            ingest_plants_pumped_storage_ferc1(ferc1_engine, ferc1_years)
      [] table = "f1_plant_in_srvce" ->
            ingest_plant_in_service_ferc1(ferc1_engine, ferc1_years)
      [] table = "f1_purchased_pwr" ->
            ingest_purchased_power_ferc1(ferc1_engine, ferc1_years)
      [] table = "f1_accumdepr_prvsn" ->
            ingest_accumulated_depreciation_ferc1(ferc1_engine, ferc1_years)

\* the keys of eia923_ingest_functions and the function each one names
Eia923IngestKeys ==
    {"plant_info_eia923", "generation_fuel_eia923", "boiler_fuel_eia923",
     "generation_eia923", "fuel_receipts_costs_eia923", "stocks_eia923"}

eia923_ingest_functions(table, eia923_dfs_) ==
    CASE table = "plant_info_eia923" -> ingest_plant_info_eia923(eia923_dfs_)
      [] table = "generation_fuel_eia923" ->
            ingest_generation_fuel_eia923(eia923_dfs_)
      [] table = "boiler_fuel_eia923" -> ingest_boiler_fuel_eia923(eia923_dfs_)
      [] table = "generation_eia923" -> ingest_generator_eia923(eia923_dfs_)
      [] table = "fuel_receipts_costs_eia923" ->
            ingest_fuel_receipts_costs_eia923(eia923_dfs_)
      [] table = "stocks_eia923" -> ingest_stocks_eia923(eia923_dfs_)

\* the pages init_db reads for the requested EIA 923 tables
Eia923PagesNeeded(eia923_tables) ==
    (IF "plant_info_eia923" \in eia923_tables
        THEN {"plant_frame", "generation_fuel"} ELSE {})
    \cup (IF "generation_fuel_eia923" \in eia923_tables
        THEN {"generation_fuel"} ELSE {})
    \cup (IF "boiler_fuel_eia923" \in eia923_tables
        THEN {"boiler_fuel"} ELSE {})
    \cup (IF "generation_eia923" \in eia923_tables
        THEN {"generator"} ELSE {})
    \cup (IF "fuel_receipts_costs_eia923" \in eia923_tables
        THEN {"fuel_receipts_costs"} ELSE {})

\* the tables of the PUDL database
StaticTables == DOMAIN StaticTableRows
GlueTables ==
    {"plants", "utilities", "utilities_eia923", "utilities_ferc1",
     "plants_eia923", "plants_ferc1", "util_plant_assn"}
Ferc1Tables ==
    {"fuel_ferc1", "plants_steam_ferc1", "plants_small_ferc1",
     "plants_hydro_ferc1", "plants_pumped_storage_ferc1",
     "plant_in_service_ferc1", "purchased_power_ferc1",
     "accumulated_depreciation_ferc1"}
Eia923Tables ==
    {"plant_info_eia923", "generation_fuel_eia923", "boilers_eia923",
     "boiler_fuel_eia923", "generators_eia923", "generation_eia923",
     "coalmine_info_eia923", "fuel_receipts_costs_eia923"}
PudlTables == StaticTables \cup GlueTables \cup Ferc1Tables \cup Eia923Tables

EmptyDB == [t \in PudlTables |-> <<>>]

\* the database after a call has appended its writes
ApplyWrites(d, writes) ==
    [t \in DOMAIN d |-> IF t \in DOMAIN writes THEN d[t] \o writes[t] ELSE d[t]]

\* the assertions without those on eia923_tables, which C1 must tell from
\* the real ones
ConfigAssertionsHold_SkipEia923(a) ==
    \/ a.debug
    \/ \A i \in 1..Len(a.ferc1_tables) :
            /\ a.ferc1_tables[i] \in ferc1_working_tables
            /\ a.ferc1_tables[i] \in ferc1_pudl_tables

\* the assertions on the configuration, which debug switches off
ConfigAssertionsHold(a) ==
    \/ a.debug
    \/ /\ \A i \in 1..Len(a.ferc1_tables) :
            /\ a.ferc1_tables[i] \in ferc1_working_tables
            /\ a.ferc1_tables[i] \in ferc1_pudl_tables
       /\ \A i \in 1..Len(a.eia923_tables) :
            a.eia923_tables[i] \in eia923_pudl_tables

\* a drop_tables_pudl that drops nothing, which C3 must tell from the real
\* one
drop_tables_pudl_Nothing(tables) == tables

\* drop_tables_pudl: PUDLBase.metadata.drop_all(engine)
drop_tables_pudl(tables) == tables \ PudlTables

\* create_tables_pudl: PUDLBase.metadata.create_all(engine)
create_tables_pudl(tables) == tables \cup PudlTables

---------------------------------------------------------------------------
(* The source data the model draws from.                                   *)

\* the columns every FERC Form 1 table carries and PUDL leaves behind
Bookkeeping ==
    [spplmnt_num |-> Val(0), row_number |-> Val(1), row_seq |-> Val(1),
     row_prvlg |-> Val("N"), report_prd |-> Val(12)]

ReportYearCells == {Val(2014), Val(2015)}
PlantNameCells == {Val(<<>>), Val(<<" ">>), Val(<<" ", "a", "B">>)}

F1FuelRows ==
    {r @@ Bookkeeping : r \in
        [respondent_id : {Val(1)}, report_year : ReportYearCells,
         plant_name : PlantNameCells,
         fuel : {Val("bit coal"), Val("wood"), Val("")},
         fuel_unit : {Val("tons"), Val("junk")},
         fuel_quantity : {Val(0), Val(10)},
         fuel_avg_heat : {Val(3)},
         fuel_cost_kwh : {Val(2), null}, fuel_generaton : {Val(4)}]}

F1SteamRows ==
    {r @@ Bookkeeping : r \in
        [respondent_id : {Val(1)}, report_year : ReportYearCells,
         plant_name : PlantNameCells,
         type_const : {Val("conv"), Val("junk")},
         plant_kind : {Val("steam"), Val("junk")},
         yr_const : {Val(<<"1", "9">>), Val(<<"x">>), Val(<<>>)},
         yr_installed : {Val(<<"9">>), Val(<<"1", "x">>)},
         tot_capacity : {Val(7)}, cost_per_kw : {Val(2)},
         net_generation : {Val(0), Val(5000)}, expns_kwh : {Val(3)}]}

F1HydroRows ==
    {r @@ Bookkeeping : r \in
        [respondent_id : {Val(1)}, report_year : ReportYearCells,
         plant_name : PlantNameCells, project_no : {Val(11)},
         yr_const : {Val(<<"1", "9">>), Val(<<"x">>)},
         yr_installed : {Val(<<"9">>)},
         net_generation : {Val(5000), Val(8000), null},
         cost_per_kw : {Val(2)}, expns_kwh : {Val(3)}]}

F1PumpedStorageRows ==
    {r @@ Bookkeeping : r \in
        [respondent_id : {Val(1)}, report_year : ReportYearCells,
         plant_name : PlantNameCells, project_no : {Val(11)},
         tot_capacity : {Val(7), null}, net_generation : {Val(5000)},
         energy_used : {Val(2000)}, net_load : {Val(3000)},
         cost_per_kw : {Val(2)}, expns_kwh : {Val(3)}]}

F1AccumDeprRows ==
    {r @@ Bookkeeping : r \in
        [respondent_id : {Val(1)}, report_year : ReportYearCells,
         row_number : {Val(1), Val(2), null}, item : {Val("x")},
         total_cde : {Val(100)}]}

F1PlantInServiceRows ==
    {r @@ Bookkeeping : r \in
        [respondent_id : {Val(1)}, report_year : ReportYearCells,
         row_number : {Val(2), Val(9)}, begin_yr_bal : {Val(100)},
         addition : {Val(5)}, yr_end_bal : {Val(105)}]}

F1PurchasedPowerRows ==
    {r @@ Bookkeeping : r \in
        [respondent_id : {Val(1)}, report_year : ReportYearCells,
         athrty_co_name : {Val("Acme"), Val("")},
         sttstcl_clssfctn : {Val("LF"), Val("")},
         rtsched_trffnbr : {Val("T1"), null}, mwh_recv : {Val(9)}]}

F1SmallPlantRows ==
    {r @@ Bookkeeping : r \in
        [respondent_id : {Val(1)}, report_year : ReportYearCells,
         plant_name : PlantNameCells, kind_of_fuel : {Val("coal")},
         yr_constructed : {Val(<<"1", "9">>)}, fuel_cost : {Val(200)}]}

\* the rows a table of the FERC Form 1 database may hold
Ferc1SourceRows ==
    [f1_fuel |-> F1FuelRows, f1_steam |-> F1SteamRows,
     f1_gnrt_plant |-> F1SmallPlantRows, f1_hydro |-> F1HydroRows,
     f1_pumped_storage |-> F1PumpedStorageRows,
     f1_plant_in_srvce |-> F1PlantInServiceRows,
     f1_purchased_pwr |-> F1PurchasedPowerRows,
     f1_accumdepr_prvsn |-> F1AccumDeprRows]

EmptyFerc1 == [t \in DOMAIN Ferc1SourceRows |-> <<>>]

\* a FERC Form 1 database with a few rows in every table: rows the ingest
\* keeps, and rows it filters out or cleans
Ferc1Sample ==
    LET pick(t, P(_)) == SetToSeq({r \in Ferc1SourceRows[t] : P(r)})
        named(r) == r.plant_name = Val(<<" ", "a", "B">>)
    IN  [f1_fuel |-> pick("f1_fuel", LAMBDA r :
            /\ named(r) /\ r.fuel = Val("bit coal") /\ r.fuel_unit = Val("tons")
            /\ r.fuel_quantity = Val(10) /\ r.fuel_avg_heat = Val(3)),
         f1_steam |-> pick("f1_steam", LAMBDA r :
            /\ named(r) /\ r.report_year = Val(2015)
            /\ r.type_const = Val("conv") /\ r.plant_kind = Val("junk")
            /\ r.yr_installed = Val(<<"9">>)
            /\ r.net_generation = Val(5000)),
         f1_gnrt_plant |-> pick("f1_gnrt_plant", LAMBDA r :
            named(r) /\ r.report_year = Val(2015)),
         f1_hydro |-> pick("f1_hydro", LAMBDA r :
            /\ r.report_year = Val(2015) /\ r.plant_name # Val(<<" ">>)
            /\ r.yr_const = Val(<<"1", "9">>)
            /\ r.net_generation = Val(5000)),
         f1_pumped_storage |-> pick("f1_pumped_storage", LAMBDA r :
            named(r) /\ r.tot_capacity = Val(7)),
         f1_plant_in_srvce |-> pick("f1_plant_in_srvce", LAMBDA r :
            r.report_year = Val(2015)),
         f1_purchased_pwr |-> pick("f1_purchased_pwr", LAMBDA r :
            /\ r.report_year = Val(2015) /\ r.athrty_co_name = Val("Acme")
            /\ r.rtsched_trffnbr = Val("T1")),
         f1_accumdepr_prvsn |-> pick("f1_accumdepr_prvsn", LAMBDA r :
            r.report_year = Val(2015) /\ r.row_number # Val(2))]

\* the columns the EIA 923 pages share and PUDL leaves behind
Eia923Shared ==
    [plant_name |-> Val("Plant"), operator_name |-> Val("Operator"),
     operator_id |-> Val(5)]

Eia923YearCells == {Val(2014), Val(2015)}
\* a plant id may be missing, and 99999 and 8899 are ids the code filters
Eia923PlantIdCells == {Val(3), Val(99999), Val(8899), null}

\* a monthly quantity: one cell per month, "." where EIA has no value
MonthlyCells == {<<Val("8"), Val(".")>>, <<Val("8"), Val("9")>>}

PlantFrameRows ==
    {r @@ Eia923Shared : r \in
        [year : Eia923YearCells, plant_id : {Val(3), Val(4), null},
         plant_state : {Val("CO")},
         combined_heat_and_power_status : {Val("Y"), Val("N")},
         sector_number : {Val("1")}, naics_code : {Val("22")},
         reporting_frequency : {Val("M")}]}

GenerationFuelRows ==
    {r @@ Eia923Shared : r \in
        [year : Eia923YearCells, plant_id : Eia923PlantIdCells,
         census_region : {Val("MTN")}, nerc_region : {Val("WECC"), null},
         reported_prime_mover : {Val("ST")}, netgen : MonthlyCells]}

BoilerFuelRows ==
    {r @@ Eia923Shared : r \in
        [year : Eia923YearCells, plant_id : {Val(3), null},
         boiler_id : {Val("B1"), Val("."), null},
         reported_prime_mover : {Val("ST"), Val(".")},
         reported_fuel_type_code : {Val("BIT")},
         quantity_of_fuel_consumed : MonthlyCells]}

GeneratorRows ==
    {r @@ Eia923Shared : r \in
        [year : Eia923YearCells, plant_id : {Val(3), null},
         generator_id : {Val("G1"), Val("."), null},
         reported_prime_mover : {Val("ST"), Val(".")},
         net_generation : MonthlyCells,
         net_generation_year_to_date : {Val("17")}]}

FuelReceiptsCostsRows ==
    {r @@ Eia923Shared : r \in
        [year : Eia923YearCells, plant_id : Eia923PlantIdCells,
         coalmine_name : {Val("Mine"), null}, coalmine_type : {Val("S")},
         coalmine_state : {Val("WY")}, coalmine_county : {Val("5")},
         coalmine_msha_id : {Val("4800000")},
         purchase_type : {Val("C")}, quantity : {Val("70")},
         fuel_cost : {Val("2.5"), Val(".")}]}

\* the rows a page of the EIA 923 spreadsheet may hold
Eia923SourceRows ==
    [plant_frame |-> PlantFrameRows, generation_fuel |-> GenerationFuelRows,
     boiler_fuel |-> BoilerFuelRows, generator |-> GeneratorRows,
     fuel_receipts_costs |-> FuelReceiptsCostsRows]

EmptyEia923 == [p \in DOMAIN Eia923SourceRows |-> <<>>]

\* an EIA 923 spreadsheet with a few rows on every page
Eia923Sample ==
    LET pick(p, P(_)) == SetToSeq({r \in Eia923SourceRows[p] : P(r)})
    IN  [plant_frame |-> pick("plant_frame", LAMBDA r :
            r.plant_id # null /\ r.combined_heat_and_power_status = Val("Y")),
         generation_fuel |-> pick("generation_fuel", LAMBDA r :
            /\ r.year = Val(2015) /\ r.plant_id \in {Val(3), Val(99999)}
            /\ r.nerc_region # null /\ r.netgen[2] = Val(".")),
         boiler_fuel |-> pick("boiler_fuel", LAMBDA r :
            /\ r.year = Val(2015) /\ r.boiler_id # Val(".")
            /\ r.reported_prime_mover = Val("ST")
            /\ r.quantity_of_fuel_consumed[2] = Val(".")),
         generator |-> pick("generator", LAMBDA r :
            /\ r.year = Val(2015) /\ r.plant_id # null
            /\ r.generator_id = Val("G1")
            /\ r.net_generation[2] = Val("9")),
         fuel_receipts_costs |-> pick("fuel_receipts_costs", LAMBDA r :
            /\ r.year = Val(2015) /\ r.plant_id \in {Val(3), Val(8899)}
            /\ r.coalmine_name # null)]

\* the rows of the plants_output sheet of the mapping spreadsheet: a plant
\* with both a FERC and an EIA identity, spelled two ways, with another
\* PUDL id, and with either identity missing
PlantMapRows ==
    LET base == [plant_id |-> Val(1), plant_name |-> Val("Comanche"),
                 respondent_id_ferc1 |-> Val(7),
                 respondent_name_ferc1 |-> Val("PSCo"),
                 plant_name_ferc1 |-> Val(<<" ", "a", "B">>),
                 plant_id_eia923 |-> Val(30),
                 plant_name_eia923 |-> Val("Comanche"),
                 operator_name_eia923 |-> Val("PSCo"),
                 operator_id_eia923 |-> Val(50)]
    IN  {base,
         [base EXCEPT !.plant_name_ferc1 = Val(<<"A", "b">>)],
         [base EXCEPT !.plant_id = Val(2)],
         [base EXCEPT !.plant_id = Val(2),
                      !.plant_name_ferc1 = Val(<<"b">>),
                      !.plant_id_eia923 = Val(31)],
         [base EXCEPT !.respondent_id_ferc1 = null,
                      !.respondent_name_ferc1 = null,
                      !.plant_name_ferc1 = null],
         [base EXCEPT !.plant_id = Val(2),
                      !.plant_id_eia923 = null, !.plant_name_eia923 = null,
                      !.operator_name_eia923 = null,
                      !.operator_id_eia923 = null],
         [base EXCEPT !.plant_id = Val(2), !.respondent_id_ferc1 = Val(8),
                      !.plant_name_eia923 = null],
         [base EXCEPT !.plant_id = null, !.plant_name = null]}

\* the rows of the utilities_output sheet
UtilityMapRows ==
    LET base == [utility_id |-> Val(1), utility_name |-> Val("PSCo"),
                 respondent_id_ferc1 |-> Val(7),
                 respondent_name_ferc1 |-> Val("PSCo"),
                 operator_id_eia923 |-> Val(50),
                 operator_name_eia923 |-> Val("PSCo")]
    IN  {base,
         [base EXCEPT !.utility_id = Val(2)],
         [base EXCEPT !.utility_id = Val(2), !.respondent_id_ferc1 = null,
                      !.respondent_name_ferc1 = null,
                      !.operator_id_eia923 = Val(51)],
         [base EXCEPT !.operator_id_eia923 = null,
                      !.operator_name_eia923 = null],
         [base EXCEPT !.utility_id = null, !.respondent_id_ferc1 = Val(8),
                      !.operator_id_eia923 = Val(51)]}

\* the mapping spreadsheets the model draws from
MappingFiles(n) ==
    [plants_output : SeqsUpTo(PlantMapRows, n),
     utilities_output : SeqsUpTo(UtilityMapRows, n)]

\* a mapping spreadsheet that passes the assertion of ingest_glue_tables
\* (it repeats a plant and a utility, and has one plant known to FERC only
\* and one utility known to EIA only), and one that fails it (two EIA plants
\* without a name)
MappingSamples ==
    LET p == CHOOSE r \in PlantMapRows :
                /\ ~HasNull(r) /\ r.plant_id = Val(1)
                /\ r.plant_name_ferc1 = Val(<<" ", "a", "B">>)
        p2 == CHOOSE r \in PlantMapRows : r.plant_id_eia923 = Val(31)
        ferc_only == CHOOSE r \in PlantMapRows : r.plant_id_eia923 = null
        u == CHOOSE r \in UtilityMapRows :
                ~HasNull(r) /\ r.utility_id = Val(1)
        eia_only == CHOOSE r \in UtilityMapRows :
                r.utility_id = Val(2) /\ r.respondent_id_ferc1 = null
        nameless(id) ==
            [p EXCEPT !.plant_id_eia923 = Val(id), !.plant_name_eia923 = null]
    IN  {[plants_output |-> <<p, p2, p, ferc_only>>,
          utilities_output |-> <<u, eia_only, u>>],
         [plants_output |-> <<nameless(30), nameless(31)>>,
          utilities_output |-> <<u>>]}

---------------------------------------------------------------------------
(* The calls of init_db the model makes.                                   *)

Ferc1TableChoices ==
    {<<>>,
     <<"f1_steam", "f1_fuel", "f1_fuel">>,
     <<"f1_fuel", "f1_steam", "f1_hydro", "f1_pumped_storage",
       "f1_plant_in_srvce", "f1_purchased_pwr", "f1_accumdepr_prvsn">>,
     <<"f1_hydro", "f1_gnrt_plant">>,
     <<"f1_respondent_id", "f1_fuel">>}

Eia923TableChoices ==
    {<<>>,
     <<"plant_info_eia923">>,
     <<"plant_info_eia923", "generation_fuel_eia923", "boiler_fuel_eia923",
       "generation_eia923", "fuel_receipts_costs_eia923", "stocks_eia923">>,
     <<"boiler_fuel_eia923", "operator_info_eia923">>}

ArgChoices ==
    [ferc1_tables : Ferc1TableChoices, ferc1_years : {{2015}, {}},
     eia923_tables : Eia923TableChoices, eia923_years : {{2014, 2015, 2016}},
     debug : BOOLEAN]

\* the orders in which the keys of a dict may come: the order they were
\* written in, and its reverse
Reverse(s) == [i \in 1..Len(s) |-> s[Len(s) + 1 - i]]

Ferc1KeyOrders ==
    LET written == <<"f1_fuel", "f1_steam", "f1_gnrt_plant", "f1_hydro",
                     "f1_pumped_storage", "f1_plant_in_srvce",
                     "f1_purchased_pwr", "f1_accumdepr_prvsn">>
    IN  {written, Reverse(written)}

Eia923KeyOrders ==
    LET written == <<"plant_info_eia923", "generation_fuel_eia923",
                     "boiler_fuel_eia923", "generation_eia923",
                     "fuel_receipts_costs_eia923", "stocks_eia923">>
    IN  {written, Reverse(written)}

\* what the PUDL database may hold before the first call: nothing, or every
\* table with a row of an earlier load
StaleDB == [t \in PudlTables |-> <<[stale |-> Val(t)]>>]

Step(name, table) == [step |-> name, table |-> table]

NoPages == [p \in {} |-> <<>>]

Init ==
    /\ pc = "check_config"
    /\ args \in ArgChoices
    /\ ferc1_db = Ferc1Sample
    /\ eia923_xlsx = Eia923Sample
    /\ mapping \in MappingSamples
    /\ \/ schema = {} /\ db = EmptyDB
       \/ schema = PudlTables /\ db = StaleDB
    /\ log = <<>>
    /\ ferc_todo = <<>>
    /\ eia_todo = <<>>
    /\ eia923_dfs = NoPages
    /\ runs = 1

\* lines 1286-1293: the assertions come before anything touches the database
CheckConfig ==
    /\ pc = "check_config"
    /\ pc' = IF ConfigAssertionsHold(args) THEN "drop_tables"
             ELSE "config_assertion_failed"
    /\ UNCHANGED <<args, ferc1_db, eia923_xlsx, mapping, schema, db, log,
                   ferc_todo, eia_todo, eia923_dfs, runs>>

\* lines 1296-1297
DropTables ==
    /\ pc = "drop_tables"
    /\ schema' = drop_tables_pudl(schema)
    /\ db' = [t \in PudlTables |-> IF t \in schema' THEN db[t] ELSE <<>>]
    /\ log' = Append(log, Step("drop_tables_pudl", ""))
    /\ pc' = "create_tables"
    /\ UNCHANGED <<args, ferc1_db, eia923_xlsx, mapping, ferc_todo, eia_todo,
                   eia923_dfs, runs>>

\* a create step that goes on to the FERC ingests, past the static and glue
\* tables, which C2 must tell from the real one
CreateTables_ThenFerc1 ==
    /\ pc = "create_tables"
    /\ schema' = create_tables_pudl(schema)
    /\ log' = Append(log, Step("create_tables_pudl", ""))
    /\ pc' = "ferc1_functions"
    /\ UNCHANGED <<args, ferc1_db, eia923_xlsx, mapping, db, ferc_todo,
                   eia_todo, eia923_dfs, runs>>

\* line 1298
CreateTables ==
    /\ pc = "create_tables"
    /\ schema' = create_tables_pudl(schema)
    /\ log' = Append(log, Step("create_tables_pudl", ""))
    /\ pc' = "static_tables"
    /\ UNCHANGED <<args, ferc1_db, eia923_xlsx, mapping, db, ferc_todo,
                   eia_todo, eia923_dfs, runs>>

\* a call of an ingest function: its writes are appended (a table that does
\* not exist is created by to_sql), or the exception it raises ends init_db
Call(result, name, table, then, failed) ==
    /\ db' = ApplyWrites(db, result.writes)
    /\ schema' = schema \cup DOMAIN result.writes
    /\ log' = Append(log, Step(name, table))
    /\ pc' = IF result.raises THEN failed ELSE then

\* line 1302
IngestStaticTables ==
    /\ pc = "static_tables"
    /\ Call(ingest_static_tables, "ingest_static_tables", "", "glue_tables",
            "raised")
    /\ UNCHANGED <<args, ferc1_db, eia923_xlsx, mapping, ferc_todo, eia_todo,
                   eia923_dfs, runs>>

\* line 1306
IngestGlueTables ==
    /\ pc = "glue_tables"
    /\ Call(ingest_glue_tables(mapping), "ingest_glue_tables", "",
            "ferc1_functions", "glue_assertion_failed")
    /\ UNCHANGED <<args, ferc1_db, eia923_xlsx, mapping, ferc_todo, eia_todo,
                   eia923_dfs, runs>>

\* lines 1309-1319: the dict is built, and its keys come in some order
BuildFerc1Functions ==
    /\ pc = "ferc1_functions"
    /\ ferc_todo' \in Ferc1KeyOrders
    /\ pc' = "ferc1_loop"
    /\ UNCHANGED <<args, ferc1_db, eia923_xlsx, mapping, schema, db, log,
                   eia_todo, eia923_dfs, runs>>

\* a test that takes every key as requested, which C4 must tell from the
\* real one
Requested_Always(table, tables) == TRUE

\* lines 1321 and 1376: `if table in ferc1_tables`
Requested(table, tables) == table \in Range(tables)

\* lines 1320-1326: one turn of the loop over the keys
Ferc1LoopStep ==
    /\ pc = "ferc1_loop"
    /\ ferc_todo # <<>>
    /\ ferc_todo' = Tail(ferc_todo)
    /\ IF Requested(Head(ferc_todo), args.ferc1_tables)
       THEN Call(ferc1_ingest_functions(Head(ferc_todo), ferc1_db,
                                        args.ferc1_years),
                 "ferc1_ingest", Head(ferc_todo), "ferc1_loop", "raised")
       ELSE UNCHANGED <<schema, db, log, pc>>
    /\ UNCHANGED <<args, ferc1_db, eia923_xlsx, mapping, eia_todo, eia923_dfs,
                   runs>>

\* lines 1332-1362: the loop is over, and the pages the requested EIA 923
\* tables need are read
LoadEia923Pages ==
    /\ pc = "ferc1_loop"
    /\ ferc_todo = <<>>
    /\ eia923_dfs' =
        [p \in Eia923PagesNeeded(Range(args.eia923_tables)) |->
            get_eia923_page(eia923_xlsx, p, args.eia923_years)]
    /\ log' = Append(log, Step("get_eia923_pages", ""))
    /\ pc' = "eia923_functions"
    /\ UNCHANGED <<args, ferc1_db, eia923_xlsx, mapping, schema, db,
                   ferc_todo, eia_todo, runs>>

\* lines 1365-1373
BuildEia923Functions ==
    /\ pc = "eia923_functions"
    /\ eia_todo' \in Eia923KeyOrders
    /\ pc' = "eia923_loop"
    /\ UNCHANGED <<args, ferc1_db, eia923_xlsx, mapping, schema, db, log,
                   ferc_todo, eia923_dfs, runs>>

\* lines 1375-1379: one turn of the loop over the keys
Eia923LoopStep ==
    /\ pc = "eia923_loop"
    /\ eia_todo # <<>>
    /\ eia_todo' = Tail(eia_todo)
    /\ IF Requested(Head(eia_todo), args.eia923_tables)
       THEN Call(eia923_ingest_functions(Head(eia_todo), eia923_dfs),
                 "eia923_ingest", Head(eia_todo), "eia923_loop", "raised")
       ELSE UNCHANGED <<schema, db, log, pc>>
    /\ UNCHANGED <<args, ferc1_db, eia923_xlsx, mapping, ferc_todo,
                   eia923_dfs, runs>>

\* init_db returns
Return ==
    /\ pc = "eia923_loop"
    /\ eia_todo = <<>>
    /\ pc' = "done"
    /\ UNCHANGED <<args, ferc1_db, eia923_xlsx, mapping, schema, db, log,
                   ferc_todo, eia_todo, eia923_dfs, runs>>

Ended == pc \in {"done", "config_assertion_failed", "glue_assertion_failed",
                 "raised"}

\* init_db is called again on the database the last call left: with the
\* same arguments, or, after a call that failed, with others
CallAgain ==
    /\ Ended
    /\ runs < MaxRuns
    /\ runs' = runs + 1
    /\ \/ args' = args
       \/ pc # "done" /\ args' \in ArgChoices
    /\ pc' = "check_config"
    /\ log' = <<>>
    /\ ferc_todo' = <<>>
    /\ eia_todo' = <<>>
    /\ eia923_dfs' = NoPages
    /\ UNCHANGED <<ferc1_db, eia923_xlsx, mapping, schema, db>>

Next ==
    \/ CheckConfig
    \/ DropTables
    \/ CreateTables
    \/ IngestStaticTables
    \/ IngestGlueTables
    \/ BuildFerc1Functions
    \/ Ferc1LoopStep
    \/ LoadEia923Pages
    \/ BuildEia923Functions
    \/ Eia923LoopStep
    \/ Return
    \/ CallAgain

Spec == Init /\ [][Next]_vars

---------------------------------------------------------------------------
(* One ingest function at a time, on every source table, page or mapping   *)
(* spreadsheet of up to MaxRows or MaxMapRows rows.                        *)

NoMapping == [plants_output |-> <<>>, utilities_output |-> <<>>]

NoRequest ==
    [ferc1_tables |-> <<>>, ferc1_years |-> {2015}, eia923_tables |-> <<>>,
     eia923_years |-> {2014, 2015, 2016}, debug |-> TRUE]

\* the database as create_tables_pudl leaves it, about to be written
InitCall ==
    /\ schema = PudlTables
    /\ db = EmptyDB
    /\ log = <<>>
    /\ ferc_todo = <<>>
    /\ eia_todo = <<>>
    /\ eia923_dfs = NoPages
    /\ runs = 1

\* a call of one FERC Form 1 ingest function: one table of the FERC
\* database holds rows
InitFerc1 ==
    /\ pc = "ferc1_call"
    /\ \E t \in Ferc1IngestKeys :
        /\ args \in {[NoRequest EXCEPT !.ferc1_tables = <<t>>,
                                       !.ferc1_years = y] :
                        y \in {{2015}, {}}}
        /\ ferc1_db \in {[EmptyFerc1 EXCEPT ![t] = rows] :
                            rows \in SeqsUpTo(Ferc1SourceRows[t], MaxRows)}
    /\ eia923_xlsx = EmptyEia923
    /\ mapping = NoMapping
    /\ InitCall

CallFerc1Ingest ==
    /\ pc = "ferc1_call"
    /\ Call(ferc1_ingest_functions(args.ferc1_tables[1], ferc1_db,
                                   args.ferc1_years),
            "ferc1_ingest", args.ferc1_tables[1], "returned", "raised")
    /\ UNCHANGED <<args, ferc1_db, eia923_xlsx, mapping, ferc_todo, eia_todo,
                   eia923_dfs, runs>>

NextFerc1 == CallFerc1Ingest

SpecFerc1 == InitFerc1 /\ [][NextFerc1]_vars

\* a call of one EIA 923 ingest function: one page of the spreadsheet is
\* any page, the others are the sample's
InitEia923 ==
    /\ pc = "eia923_call"
    /\ \E t \in Eia923IngestKeys :
        /\ args = [NoRequest EXCEPT !.eia923_tables = <<t>>]
        /\ \E p \in Eia923PagesNeeded({t}) :
            eia923_xlsx \in {[Eia923Sample EXCEPT ![p] = rows] :
                            rows \in SeqsUpTo(Eia923SourceRows[p], MaxRows)}
    /\ ferc1_db = EmptyFerc1
    /\ mapping = NoMapping
    /\ InitCall

\* the pages are read (lines 1332-1362) and the function is called
CallEia923Ingest ==
    /\ pc = "eia923_call"
    /\ eia923_dfs' =
        [p \in Eia923PagesNeeded(Range(args.eia923_tables)) |->
            get_eia923_page(eia923_xlsx, p, args.eia923_years)]
    /\ Call(eia923_ingest_functions(args.eia923_tables[1], eia923_dfs'),
            "eia923_ingest", args.eia923_tables[1], "returned", "raised")
    /\ UNCHANGED <<args, ferc1_db, eia923_xlsx, mapping, ferc_todo, eia_todo,
                   runs>>

NextEia923 == CallEia923Ingest

SpecEia923 == InitEia923 /\ [][NextEia923]_vars

\* a call of ingest_glue_tables on any mapping spreadsheet
InitGlue ==
    /\ pc = "glue_call"
    /\ args = NoRequest
    /\ mapping \in MappingFiles(MaxMapRows)
    /\ ferc1_db = EmptyFerc1
    /\ eia923_xlsx = EmptyEia923
    /\ InitCall

CallGlueIngest ==
    /\ pc = "glue_call"
    /\ Call(ingest_glue_tables(mapping), "ingest_glue_tables", "",
            "returned", "raised")
    /\ UNCHANGED <<args, ferc1_db, eia923_xlsx, mapping, ferc_todo, eia_todo,
                   eia923_dfs, runs>>

NextGlue == CallGlueIngest

SpecGlue == InitGlue /\ [][NextGlue]_vars

---------------------------------------------------------------------------
(* Properties of init_db.                                                  *)

\* the tables whose ingest functions the log says were called
Invoked(step) ==
    [i \in 1..Len(SelectSeq(log, LAMBDA e : e.step = step)) |->
        SelectSeq(log, LAMBDA e : e.step = step)[i].table]

NoRepeat(s) == \A i, j \in 1..Len(s) : s[i] = s[j] => i = j

\* a name of a list is not in a set it has to be in
Missing(tables, known) == \E i \in 1..Len(tables) : tables[i] \notin known

ConfigRejected(a) ==
    /\ ~a.debug
    /\ \/ Missing(a.ferc1_tables, ferc1_working_tables)
       \/ Missing(a.ferc1_tables, ferc1_pudl_tables)
       \/ Missing(a.eia923_tables, eia923_pudl_tables)

\* C1: with debug=False, a name of ferc1_tables missing from
\* ferc1_working_tables or ferc1_pudl_tables, or a name of eia923_tables
\* missing from eia923_pudl_tables, makes init_db fail on its assertions
\* before the database is dropped, re-created or written: the tables and
\* their rows are what they were.
C1_AssertionBeforeDatabase ==
    [][(pc = "check_config" /\ ConfigRejected(args))
        => (pc' = "config_assertion_failed"
            /\ UNCHANGED <<schema, db, log>>)]_vars

C1_Witness ==
    /\ pc = "config_assertion_failed"
    /\ ConfigRejected(args)
    /\ db = StaleDB
    /\ log = <<>>

Rank(e) ==
    CASE e.step = "drop_tables_pudl" -> 1
      [] e.step = "create_tables_pudl" -> 2
      [] e.step = "ingest_static_tables" -> 3
      [] e.step = "ingest_glue_tables" -> 4
      [] e.step = "ferc1_ingest" -> 5
      [] e.step = "get_eia923_pages" -> 6
      [] e.step = "eia923_ingest" -> 7

\* C2: the steps of a run come in the fixed order drop, create, static,
\* glue, FERC ingests, EIA page loading, EIA ingests: the first four steps
\* are those four, once each and in that order, everything else comes after
\* them, no FERC ingest comes after the pages are loaded, and no EIA ingest
\* before.
C2_FixedOrder ==
    \A i \in 1..Len(log) :
        /\ i <= 4 => Rank(log[i]) = i
        /\ i > 4 => Rank(log[i]) >= 5
        /\ i > 1 => Rank(log[i - 1]) <= Rank(log[i])
        /\ Rank(log[i]) = 7 => \E j \in 1..(i - 1) : Rank(log[j]) = 6
        /\ Rank(log[i]) = 6 => \A j \in 1..(i - 1) : Rank(log[j]) # 6

C2_Witness ==
    /\ pc = "done"
    /\ Invoked("ferc1_ingest") # <<>>
    /\ Invoked("eia923_ingest") # <<>>

\* what a run with these arguments and sources loads into an empty database
RECURSIVE LoadedFerc1(_, _)
LoadedFerc1(d, keys) ==
    IF keys = <<>> THEN d
    ELSE LoadedFerc1(
            IF Head(keys) \in Range(args.ferc1_tables)
            THEN ApplyWrites(d, ferc1_ingest_functions(
                    Head(keys), ferc1_db, args.ferc1_years).writes)
            ELSE d,
            Tail(keys))

RECURSIVE LoadedEia923(_, _)
LoadedEia923(d, keys) ==
    IF keys = <<>> THEN d
    ELSE LoadedEia923(
            IF Head(keys) \in Range(args.eia923_tables)
            THEN ApplyWrites(d, eia923_ingest_functions(Head(keys),
                    [p \in Eia923PagesNeeded(Range(args.eia923_tables)) |->
                        get_eia923_page(eia923_xlsx, p, args.eia923_years)]
                    ).writes)
            ELSE d,
            Tail(keys))

Loaded ==
    LoadedEia923(
        LoadedFerc1(
            ApplyWrites(ApplyWrites(EmptyDB, ingest_static_tables.writes),
                        ingest_glue_tables(mapping).writes),
            SetToSeq(Ferc1IngestKeys)),
        SetToSeq(Eia923IngestKeys))

\* C3: the database a successful run leaves is the one its sources and
\* arguments give on an empty database, whatever was there before (nothing,
\* an earlier load, the rows of the same run done once already, or what a
\* failed run left): no row of before survives and none is doubled.
C3_OnlySourcesAndArguments ==
    pc = "done" => db = Loaded /\ schema = PudlTables

C3_Witness ==
    /\ pc = "done"
    /\ runs = 2
    /\ db["fuel_ferc1"] # <<>>
    /\ db["boiler_fuel_eia923"] # <<>>

\* the tables each ingest function writes
Destinations(table) ==
    CASE table = "f1_fuel" -> {"fuel_ferc1"}
      [] table = "f1_steam" -> {"plants_steam_ferc1"}
      [] table = "f1_gnrt_plant" -> {}
      [] table = "f1_hydro" -> {"plants_hydro_ferc1"}
      [] table = "f1_pumped_storage" -> {"plants_pumped_storage_ferc1"}
      [] table = "f1_plant_in_srvce" -> {"plant_in_service_ferc1"}
      [] table = "f1_purchased_pwr" -> {"purchased_power_ferc1"}
      [] table = "f1_accumdepr_prvsn" -> {"accumulated_depreciation_ferc1"}
      [] table = "plant_info_eia923" -> {"plant_info_eia923"}
      [] table = "generation_fuel_eia923" -> {"generation_fuel_eia923"}
      [] table = "boiler_fuel_eia923" ->
            {"boilers_eia923", "boiler_fuel_eia923"}
      [] table = "generation_eia923" ->
            {"generators_eia923", "generation_eia923"}
      [] table = "fuel_receipts_costs_eia923" ->
            {"coalmine_info_eia923", "fuel_receipts_costs_eia923"}
      [] table = "stocks_eia923" -> {}

IngestStep ==
    /\ Len(log') = Len(log) + 1
    /\ log'[Len(log')].step \in {"ferc1_ingest", "eia923_ingest"}

Changed == {t \in PudlTables : db'[t] # db[t]}

---------------------------------------------------------------------------
(* Properties of the ingest functions.                                     *)

\* the rows of f1_steam that ingest_plants_steam_ferc1 selects
SelectedSteam ==
    SelectSeq(ferc1_db["f1_steam"], LAMBDA r :
        /\ ~IsNull(r.net_generation) /\ r.net_generation[1] > 0
        /\ ~IsNull(r.plant_name) /\ r.plant_name[1] # <<>>
        /\ ~IsNull(r.report_year) /\ r.report_year[1] \in args.ferc1_years)

SteamReturned == pc = "returned" /\ args.ferc1_tables = <<"f1_steam">>

\* the cell written for a string is a category that lists the string, or
\* null when no category lists it
Categorised(written, c, stringmap) ==
    IF ~IsNull(c) /\ \E k \in DOMAIN stringmap : c[1] \in stringmap[k]
    THEN ~IsNull(written) /\ written[1] \in DOMAIN stringmap
         /\ c[1] \in stringmap[written[1]]
    ELSE IsNull(written)

\* C6: ingest_plants_steam_ferc1 writes a row for every selected row of
\* f1_steam, in order; its type_const and plant_kind are the category that
\* lists the source string, and null when no category does.
C6_UnmappedCategoryIsNull ==
    SteamReturned =>
        /\ Len(db["plants_steam_ferc1"]) = Len(SelectedSteam)
        /\ \A i \in 1..Len(SelectedSteam) :
            /\ Categorised(db["plants_steam_ferc1"][i].type_const,
                           SelectedSteam[i].type_const,
                           ferc1_type_const_strings)
            /\ Categorised(db["plants_steam_ferc1"][i].plant_kind,
                           SelectedSteam[i].plant_kind,
                           ferc1_plant_kind_strings)

C6_Witness ==
    /\ SteamReturned
    /\ \E r \in Range(db["plants_steam_ferc1"]) :
        r.type_const = null /\ r.plant_kind = Val("steam")
    /\ \E r \in Range(ferc1_db["f1_steam"]) : r.type_const = Val("junk")

\* a string that is not a number
Unparseable(c) ==
    IsNull(c) \/ c[1] = <<>> \/ \E i \in 1..Len(c[1]) : c[1][i] \notin Digits

\* C7: ingest_plants_steam_ferc1 raises nothing and writes a row for every
\* selected row of f1_steam; a yr_const or yr_installed that is not a
\* number is written as null, and the other fields of the row are what
\* they are for the same row with years that are numbers.
C7_UnparseableYearIsNull ==
    /\ args.ferc1_tables = <<"f1_steam">> => pc # "raised"
    /\ SteamReturned =>
        /\ Len(db["plants_steam_ferc1"]) = Len(SelectedSteam)
        /\ \A i \in 1..Len(SelectedSteam) :
            LET written == db["plants_steam_ferc1"][i]
                numbered == [SelectedSteam[i] EXCEPT
                                !.yr_const = Val(<<"1">>),
                                !.yr_installed = Val(<<"1">>)]
                others(r) == [r EXCEPT !.year_constructed = null,
                                       !.year_installed = null]
            IN  /\ Unparseable(SelectedSteam[i].yr_const)
                    => written.year_constructed = null
                /\ Unparseable(SelectedSteam[i].yr_installed)
                    => written.year_installed = null
                /\ others(written) = others(SteamRow(numbered))

C7_Witness ==
    /\ SteamReturned
    /\ \E r \in Range(db["plants_steam_ferc1"]) :
        /\ r.year_constructed = null /\ r.year_installed = null
        /\ r.type_const = Val("conventional")
        /\ r.net_generation_mwh = Val(5000000)

\* C8 as the specification has it: boilers_eia923 and boiler_fuel_eia923
\* hold no row with a null plant_id or boiler_id, and generators_eia923
\* none with a null plant_id or generator_id.
C8_NoNullKey ==
    /\ \A r \in Range(db["boilers_eia923"]) :
        r.plant_id # null /\ r.boiler_id # null
    /\ \A r \in Range(db["boiler_fuel_eia923"]) :
        r.plant_id # null /\ r.boiler_id # null
    /\ \A r \in Range(db["generators_eia923"]) :
        r.plant_id # null /\ r.generator_id # null

\* the FERC Form 1 tables whose rows are selected by plant name too
Ferc1PlantTables == {"f1_fuel", "f1_steam", "f1_hydro", "f1_pumped_storage"}

\* the rows the ingest function of table t writes when r is the only row of
\* the table and every report year is asked for
WrittenFor(t, r) ==
    ApplyWrites(EmptyDB,
        ferc1_ingest_functions(t, [EmptyFerc1 EXCEPT ![t] = <<r>>],
            {c[1] : c \in ReportYearCells}).writes)

\* C9: every row a FERC Form 1 ingest function writes is a row it writes
\* for one source row alone, whose report_year is in ferc1_years and, for
\* the plant tables, whose plant_name is not the empty string; with no
\* year in ferc1_years nothing is written.
C9_RowsComeFromRequestedYears ==
    pc = "returned" /\ args.ferc1_tables # <<>> =>
        LET t == args.ferc1_tables[1]
        IN  /\ \A d \in Ferc1Tables : \A i \in 1..Len(db[d]) :
                \E r \in Range(ferc1_db[t]) :
                    /\ ~IsNull(r.report_year)
                    /\ r.report_year[1] \in args.ferc1_years
                    /\ t \in Ferc1PlantTables =>
                        ~IsNull(r.plant_name) /\ r.plant_name[1] # <<>>
                    /\ \E j \in 1..Len(WrittenFor(t, r)[d]) :
                        WrittenFor(t, r)[d][j] = db[d][i]
            /\ args.ferc1_years = {} => \A d \in Ferc1Tables : db[d] = <<>>

C9_Witness ==
    /\ pc = "returned"
    /\ args.ferc1_tables = <<"f1_hydro">>
    /\ args.ferc1_years = {2015}
    /\ Len(db["plants_hydro_ferc1"]) = Len(ferc1_db["f1_hydro"])
    /\ db["plants_hydro_ferc1"] # <<>>

Unique(df, cols) ==
    \A i, j \in 1..Len(df) :
        Project(df[i], cols) = Project(df[j], cols) => i = j

\* C10: after ingest_glue_tables no two rows of plants or of utilities have
\* the same id, no two of plants_eia923 the same plant_id, no two of
\* utilities_eia923 the same operator_id, no two of utilities_ferc1 the same
\* respondent_id, no two of plants_ferc1 the same plant_name and
\* respondent_id, and no two of util_plant_assn the same plant_id and
\* utility_id, neither of which is null.
C10_GlueKeysUnique ==
    pc = "returned" /\ log = <<Step("ingest_glue_tables", "")>> =>
        /\ Unique(db["plants"], {"id"})
        /\ Unique(db["utilities"], {"id"})
        /\ Unique(db["plants_eia923"], {"plant_id"})
        /\ Unique(db["utilities_eia923"], {"operator_id"})
        /\ Unique(db["utilities_ferc1"], {"respondent_id"})
        /\ Unique(db["plants_ferc1"], {"plant_name", "respondent_id"})
        /\ Unique(db["util_plant_assn"], {"plant_id", "utility_id"})
        /\ \A r \in Range(db["util_plant_assn"]) : ~HasNull(r)

C10_Witness ==
    /\ pc = "returned"
    /\ Len(mapping.plants_output) = 2
    /\ mapping.plants_output[1] = mapping.plants_output[2]
    /\ Len(mapping.utilities_output) = 2
    /\ Len(db["plants"]) = 1
    /\ Len(db["utilities"]) = 2
    /\ Len(db["util_plant_assn"]) = 2

---------------------------------------------------------------------------
(* C11: the glue tables are consistent with one another.                   *)

\* the values a table of the database holds in one column
ColumnOf(table, col) == {db[table][i][col] : i \in 1..Len(db[table])}

GlueReturned == pc = "returned"

\* C11: once ingest_glue_tables has returned, every plant_id_pudl of
\* plants_eia923 and of plants_ferc1 and every plant_id of util_plant_assn
\* is an id of plants, and every util_id_pudl of utilities_eia923 and of
\* utilities_ferc1 and every utility_id of util_plant_assn is an id of
\* utilities, whatever the mapping spreadsheet holds
C11_GlueForeignKeys ==
    GlueReturned =>
        /\ ColumnOf("plants_eia923", "plant_id_pudl")
                \subseteq ColumnOf("plants", "id")
        /\ ColumnOf("plants_ferc1", "plant_id_pudl")
                \subseteq ColumnOf("plants", "id")
        /\ ColumnOf("util_plant_assn", "plant_id")
                \subseteq ColumnOf("plants", "id")
        /\ ColumnOf("utilities_eia923", "util_id_pudl")
                \subseteq ColumnOf("utilities", "id")
        /\ ColumnOf("utilities_ferc1", "util_id_pudl")
                \subseteq ColumnOf("utilities", "id")
        /\ ColumnOf("util_plant_assn", "utility_id")
                \subseteq ColumnOf("utilities", "id")

\* two plants and two utilities are written, and every referring table has
\* rows that refer to them
C11_Witness ==
    /\ GlueReturned
    /\ ColumnOf("plants", "id") = {Val(1), Val(2)}
    /\ ColumnOf("utilities", "id") = {Val(1), Val(2)}
    /\ ColumnOf("plants_eia923", "plant_id_pudl") = {Val(1), Val(2)}
    /\ ColumnOf("plants_ferc1", "plant_id_pudl") = {Val(1), Val(2)}
    /\ ColumnOf("utilities_eia923", "util_id_pudl") = {Val(1), Val(2)}
    /\ ColumnOf("utilities_ferc1", "util_id_pudl") = {Val(1)}
    /\ ColumnOf("util_plant_assn", "plant_id") = {Val(1), Val(2)}
    /\ ColumnOf("util_plant_assn", "utility_id") = {Val(1)}

---------------------------------------------------------------------------
(* C12: the FERC respondents of plants_ferc1 and of utilities_ferc1.       *)

\* C12: once ingest_glue_tables has returned, every respondent_id of a row
\* of plants_ferc1 is the respondent_id of a row of utilities_ferc1
C12_RespondentHasUtility ==
    GlueReturned =>
        ColumnOf("plants_ferc1", "respondent_id")
            \subseteq ColumnOf("utilities_ferc1", "respondent_id")

---------------------------------------------------------------------------
(* C13: the unit conversions of ingest_plants_hydro_ferc1.                 *)

HydroReturned == pc = "returned" /\ args.ferc1_tables = <<"f1_hydro">>

\* the rows of f1_hydro that ingest_plants_hydro_ferc1 writes a row for:
\* those it selects, without a null in a column it keeps and with years
\* that are numbers
KeptHydro ==
    SelectSeq(ferc1_db["f1_hydro"], LAMBDA r :
        /\ ~HasNull(DropCols(r, FercBookkeeping))
        /\ r.plant_name[1] # <<>>
        /\ r.report_year[1] \in args.ferc1_years
        /\ ~IsNull(ToNumeric(r.yr_const))
        /\ ~IsNull(ToNumeric(r.yr_installed)))

\* C13: ingest_plants_hydro_ferc1 writes, for every row it keeps,
\* net_generation_mwh = net_generation / 1000, cost_per_mw = cost_per_kw *
\* 1000 and expns_per_mwh = expns_kwh * 1000, and no column named
\* net_generation, cost_per_kw or expns_kwh
C13_HydroUnits ==
    HydroReturned =>
        LET written == db["plants_hydro_ferc1"]
        IN  /\ Len(written) = Len(KeptHydro)
            /\ \A i \in 1..Len(written) :
                /\ written[i].net_generation_mwh[1]
                        = KeptHydro[i].net_generation[1] \div 1000
                /\ written[i].cost_per_mw[1]
                        = 1000 * KeptHydro[i].cost_per_kw[1]
                /\ written[i].expns_per_mwh[1]
                        = 1000 * KeptHydro[i].expns_kwh[1]
                /\ DOMAIN written[i]
                        \cap {"net_generation", "cost_per_kw", "expns_kwh"}
                    = {}

\* a hydro plant that generated 8000 is written with 8
C13_Witness ==
    /\ HydroReturned
    /\ \E i \in 1..Len(db["plants_hydro_ferc1"]) :
        /\ db["plants_hydro_ferc1"][i].net_generation_mwh = Val(8)
        /\ db["plants_hydro_ferc1"][i].cost_per_mw = Val(2000)
        /\ db["plants_hydro_ferc1"][i].expns_per_mwh = Val(3000)

---------------------------------------------------------------------------
(* C14: when the sanity assertion of ingest_glue_tables fails.             *)

\* C14: the assertion of ingest_glue_tables passes on every mapping
\* spreadsheet (after de-duplication each of the four frames has at most one
\* row with a null): no call of ingest_glue_tables raises
C14_AssertionNeverFails == pc # "raised"

\* row i of df is the first of df with its key
FirstOfKey(df, key, i) ==
    \A j \in 1..(i - 1) : Project(df[j], key) # Project(df[i], key)

\* the number of rows with a null in the columns cols among the rows of df
\* that are the first with their key
NullRowCount(df, cols, key) ==
    Cardinality({i \in 1..Len(df) :
        FirstOfKey(df, key, i) /\ HasNull(Project(df[i], cols))})

\* one of the four frames keeps, once its duplicates are dropped, two rows
\* or more with a null
TwoNullRows ==
    LET plant_map ==
            [i \in 1..Len(mapping.plants_output) |->
                [mapping.plants_output[i] EXCEPT
                    !.plant_name_ferc1 = StripTitle(@)]]
        utility_map == mapping.utilities_output
    IN  \/ NullRowCount(plant_map,
                {"plant_id_eia923", "plant_name_eia923", "plant_id"},
                {"plant_id_eia923"}) >= 2
        \/ NullRowCount(plant_map,
                {"plant_name_ferc1", "respondent_id_ferc1", "plant_id"},
                {"plant_name_ferc1", "respondent_id_ferc1"}) >= 2
        \/ NullRowCount(utility_map,
                {"operator_id_eia923", "operator_name_eia923", "utility_id"},
                {"operator_id_eia923"}) >= 2
        \/ NullRowCount(utility_map,
                {"respondent_id_ferc1", "respondent_name_ferc1", "utility_id"},
                {"respondent_id_ferc1"}) >= 2

\* C14, amended: de-duplication leaves one row for each key, not one row
\* with a null; a call of ingest_glue_tables raises exactly when one of
\* plants_eia923, plants_ferc1, utilities_eia923 and utilities_ferc1 keeps
\* two rows or more with a null, and returns otherwise
C14_FailsOnTwoNullRows ==
    /\ pc = "raised" => TwoNullRows
    /\ pc = "returned" => ~TwoNullRows

\* the assertion fails on two plants that have different keys in a frame
\* and a null each
C14_Witness ==
    /\ pc = "raised"
    /\ Len(mapping.plants_output) = 2
    /\ mapping.utilities_output = <<>>
    /\ TwoNullRows

---------------------------------------------------------------------------
(* C15: what the database holds when the assertion has failed.             *)

GlueAssertionFailed == pc = "glue_assertion_failed"

\* C15: when the null-row assertion of ingest_glue_tables fails, none of the
\* seven glue tables has received a row, and every static table holds the
\* rows ingest_static_tables committed
C15_NothingWrittenOnFailure ==
    GlueAssertionFailed =>
        /\ \A t \in GlueTables : db[t] = <<>>
        /\ \A t \in StaticTables :
                db[t] = StaticTableRows[t] /\ db[t] # <<>>

\* the assertion has failed on a mapping spreadsheet that has plants and
\* utilities to write
C15_Witness ==
    /\ GlueAssertionFailed
    /\ GlueWrites(mapping).plants # <<>>
    /\ GlueWrites(mapping).utilities # <<>>
    /\ log[Len(log)] = Step("ingest_glue_tables", "")

---------------------------------------------------------------------------
(* C16: what stands behind a row of util_plant_assn.                       *)

\* the plant p and the utility u of the mapping spreadsheet carry the same
\* FERC respondent_id or the same EIA operator_id, and it is not null
SharedKey(p, u) ==
    \/ /\ ~IsNull(p.respondent_id_ferc1)
       /\ p.respondent_id_ferc1 = u.respondent_id_ferc1
    \/ /\ ~IsNull(p.operator_id_eia923)
       /\ p.operator_id_eia923 = u.operator_id_eia923

\* C16: every (plant_id, utility_id) row of util_plant_assn has a row of
\* plants_output with that plant_id and a row of utilities_output with that
\* utility_id that carry the same non-null FERC respondent_id or the same
\* non-null EIA operator_id; null keys associate nothing
C16_AssociationsBacked ==
    GlueReturned =>
        \A i \in 1..Len(db["util_plant_assn"]) :
            \E p \in Range(mapping.plants_output),
               u \in Range(mapping.utilities_output) :
                /\ p.plant_id = db["util_plant_assn"][i].plant_id
                /\ u.utility_id = db["util_plant_assn"][i].utility_id
                /\ SharedKey(p, u)

---------------------------------------------------------------------------
(* C17: plant names. Each of the five functions that clean a FERC plant    *)
(* name is called on two rows that differ in the name only: any name of up *)
(* to MaxNameLen characters, and the same name in other capitals or within *)
(* spaces.                                                                 *)

MaxNameLen == 3

NameChars == {"a", "B", " ", "1"}

\* s, and s in other capitals or with spaces around it
NameVariants(s) ==
    {s, <<" ">> \o s \o <<" ">>,
     [i \in 1..Len(s) |-> Upper(s[i])], [i \in 1..Len(s) |-> Lower(s[i])]}

InitNames ==
    /\ \E s \in SeqsUpTo(NameChars, MaxNameLen) : \E v \in NameVariants(s) :
        \/ /\ pc = "ferc1_call"
           /\ \E t \in Ferc1PlantTables :
                /\ args = [NoRequest EXCEPT !.ferc1_tables = <<t>>,
                                             !.ferc1_years = {2014, 2015}]
                /\ LET r == CHOOSE x \in Range(Ferc1Sample[t]) : ~HasNull(x)
                   IN  ferc1_db =
                        [EmptyFerc1 EXCEPT ![t] =
                            <<[r EXCEPT !.plant_name = Val(s)],
                              [r EXCEPT !.plant_name = Val(v)]>>]
           /\ mapping = NoMapping
        \/ /\ pc = "glue_call"
           /\ args = NoRequest
           /\ ferc1_db = EmptyFerc1
           /\ LET p == CHOOSE r \in PlantMapRows :
                        ~HasNull(r) /\ r.plant_id = Val(2)
              IN  mapping =
                    [plants_output |->
                        <<[p EXCEPT !.plant_name_ferc1 = Val(s)],
                          [p EXCEPT !.plant_name_ferc1 = Val(v)]>>,
                     utilities_output |-> <<>>]
    /\ eia923_xlsx = EmptyEia923
    /\ InitCall

NextNames == CallFerc1Ingest \/ CallGlueIngest

SpecNames == InitNames /\ [][NextNames]_vars

\* w is s without the spaces around it, with every letter that follows no
\* letter in upper case and every other letter in lower case
CanonicalOf(w, s) ==
    \E a, b \in 0..Len(s) :
        /\ a + b <= Len(s)
        /\ \A k \in 1..a : s[k] = " "
        /\ \A k \in (Len(s) - b + 1)..Len(s) : s[k] = " "
        /\ Len(w) = Len(s) - a - b
        /\ Len(w) > 0 => s[a + 1] # " " /\ s[Len(s) - b] # " "
        /\ \A k \in 1..Len(w) :
            w[k] = IF k = 1 \/ ~IsLetter(s[a + k - 1]) THEN Upper(s[a + k])
                   ELSE Lower(s[a + k])

\* the plant names of the source rows of the call, those of the rows the
\* function selects, and the rows it has written
SourceNames ==
    IF args.ferc1_tables = <<>>
    THEN [i \in 1..Len(mapping.plants_output) |->
            mapping.plants_output[i].plant_name_ferc1[1]]
    ELSE [i \in 1..Len(ferc1_db[args.ferc1_tables[1]]) |->
            ferc1_db[args.ferc1_tables[1]][i].plant_name[1]]

SelectedNames ==
    IF args.ferc1_tables = <<>> THEN SourceNames
    ELSE SelectSeq(SourceNames, LAMBDA s : s # <<>>)

NamedRows ==
    IF args.ferc1_tables = <<>> THEN db["plants_ferc1"]
    ELSE db[CHOOSE d \in Destinations(args.ferc1_tables[1]) : TRUE]

\* C17: the plant_name written to plants_ferc1 (glue), fuel_ferc1,
\* plants_steam_ferc1, plants_hydro_ferc1 and plants_pumped_storage_ferc1
\* is the source name stripped and then title-cased; source names that
\* differ only in capitals or in the spaces around them are written as the
\* same name (one key, so one row of plants_ferc1); and cleaning a written
\* name again leaves it as it is
C17_CanonicalPlantName ==
    pc = "returned" =>
        /\ \A i \in 1..Len(NamedRows) : \A j \in 1..Len(SelectedNames) :
                CanonicalOf(NamedRows[i].plant_name[1], SelectedNames[j])
        /\ Len(NamedRows) = IF args.ferc1_tables = <<>> THEN 1
                            ELSE Len(SelectedNames)
        /\ \A i \in 1..Len(NamedRows) :
                StripTitle(NamedRows[i].plant_name) = NamedRows[i].plant_name

\* " a1B " and "a1b" are both written as "A1B"
C17_Witness ==
    /\ pc = "returned"
    /\ Len(SourceNames) = 2
    /\ Len(SourceNames[1]) # Len(SourceNames[2])
    /\ NamedRows # <<>>
    /\ \A i \in 1..Len(NamedRows) :
            NamedRows[i].plant_name = Val(<<"A", "1", "B">>)

---------------------------------------------------------------------------
(* C18: one conversion of net_generation for the three kinds of plant.     *)

GeneratingTables == {"f1_steam", "f1_hydro", "f1_pumped_storage"}

\* the net_generation_mwh the ingest function of table t writes for a row
\* whose net_generation is g
NetGenerationMwh(t, g) ==
    LET named == CHOOSE x \in Range(Ferc1Sample[t]) :
                    x.plant_name = Val(<<" ", "a", "B">>)
        r == [named EXCEPT !.net_generation = Val(g)]
        d == CHOOSE x \in Destinations(t) : TRUE
    IN  ferc1_ingest_functions(t, [EmptyFerc1 EXCEPT ![t] = <<r>>],
                               {2014, 2015}).writes[d][1].net_generation_mwh

\* C18: the net_generation_mwh that ingest_plants_steam_ferc1,
\* ingest_plants_hydro_ferc1 or ingest_plants_pumped_storage_ferc1 has
\* written for a source row is the net_generation_mwh each of the three
\* writes for that net_generation
C18_SameNetGenerationMwh ==
    /\ pc = "returned"
    /\ args.ferc1_tables # <<>>
    /\ args.ferc1_tables[1] \in GeneratingTables
    => LET t == args.ferc1_tables[1]
           d == CHOOSE x \in Destinations(t) : TRUE
       IN  \A i \in 1..Len(db[d]) :
            \E r \in Range(ferc1_db[t]) :
                /\ ~IsNull(r.net_generation)
                /\ \A t2 \in GeneratingTables :
                    NetGenerationMwh(t2, r.net_generation[1])
                        = db[d][i].net_generation_mwh

---------------------------------------------------------------------------
(* C19, C20: what ingest_plants_pumped_storage_ferc1 writes.               *)

PumpedStorageReturned ==
    pc = "returned" /\ args.ferc1_tables = <<"f1_pumped_storage">>

\* the rows of f1_pumped_storage that ingest_plants_pumped_storage_ferc1
\* writes a row for: those it selects, without a null in a column it keeps
KeptPumpedStorage ==
    SelectSeq(ferc1_db["f1_pumped_storage"], LAMBDA r :
        /\ ~HasNull(DropCols(r, FercBookkeeping))
        /\ r.plant_name[1] # <<>>
        /\ r.report_year[1] \in args.ferc1_years)

\* C19: ingest_plants_pumped_storage_ferc1 writes, for every row it keeps,
\* energy_used_for_pumping_mwh = energy_used / 1000, net_load_mwh =
\* net_load / 1000, cost_per_mw = cost_per_kw * 1000 and expns_per_mwh =
\* expns_kwh * 1000, and no column named net_load, cost_per_kw or expns_kwh
C19_PumpedStorageUnits ==
    PumpedStorageReturned =>
        LET written == db["plants_pumped_storage_ferc1"]
        IN  /\ Len(written) = Len(KeptPumpedStorage)
            /\ \A i \in 1..Len(written) :
                /\ {"energy_used_for_pumping_mwh", "net_load_mwh",
                     "cost_per_mw", "expns_per_mwh"}
                        \subseteq DOMAIN written[i]
                /\ written[i].energy_used_for_pumping_mwh[1]
                        = KeptPumpedStorage[i].energy_used[1] \div 1000
                /\ written[i].net_load_mwh[1]
                        = KeptPumpedStorage[i].net_load[1] \div 1000
                /\ written[i].cost_per_mw[1]
                        = 1000 * KeptPumpedStorage[i].cost_per_kw[1]
                /\ written[i].expns_per_mwh[1]
                        = 1000 * KeptPumpedStorage[i].expns_kwh[1]
                /\ DOMAIN written[i]
                        \cap {"net_load", "cost_per_kw", "expns_kwh"}
                    = {}

\* C20: every row ingest_plants_pumped_storage_ferc1 writes has the columns
\* of its rename table under their PUDL names (id, project_number,
\* total_capacity_mw) and none under its FERC name (respondent_id,
\* project_no, tot_capacity, peak_demand)
C20_PumpedStoragePudlNames ==
    PumpedStorageReturned =>
        \A i \in 1..Len(db["plants_pumped_storage_ferc1"]) :
            LET cols == DOMAIN db["plants_pumped_storage_ferc1"][i]
            IN  /\ {"id", "project_number", "total_capacity_mw"}
                        \subseteq cols
                /\ cols \cap {"respondent_id", "project_no", "tot_capacity",
                               "peak_demand"} = {}

---------------------------------------------------------------------------
(* C21: the rows of fuel_ferc1.                                            *)

FuelReturned == pc = "returned" /\ args.ferc1_tables = <<"f1_fuel">>

\* the string of cell c is a spelling some entry of the lookup lists
Listed(c, stringmap) ==
    ~IsNull(c) /\ \E k \in DOMAIN stringmap : c[1] \in stringmap[k]

\* the rows of f1_fuel that ingest_fuel_ferc1 writes a row for: those it
\* selects, without a null in a column it keeps and with a fuel and a
\* fuel_unit the lookups list
KeptFuel ==
    SelectSeq(ferc1_db["f1_fuel"], LAMBDA r :
        /\ ~HasNull(DropCols(r, FercBookkeeping))
        /\ r.fuel[1] # ""
        /\ r.fuel_quantity[1] > 0
        /\ r.plant_name[1] # <<>>
        /\ r.report_year[1] \in args.ferc1_years
        /\ Listed(r.fuel, ferc1_fuel_strings)
        /\ Listed(r.fuel_unit, ferc1_fuel_unit_strings))

\* C21: the rows of fuel_ferc1 are, in order, those written for the rows of
\* f1_fuel with fuel != '', fuel_quantity > 0, plant_name != '', no null
\* and a listed fuel and fuel_unit; a written row has no null in any
\* column, fuel_cost_per_mwh = 1000 * fuel_cost_kwh and fuel_mmbtu_per_mwh
\* = 1000 * fuel_generaton; so a row whose fuel or fuel_unit no lookup
\* lists is not in fuel_ferc1
C21_FuelRows ==
    FuelReturned =>
        LET written == db["fuel_ferc1"]
        IN  /\ Len(written) = Len(KeptFuel)
            /\ \A i \in 1..Len(written) :
                /\ ~HasNull(written[i])
                /\ written[i].fuel_cost_per_mwh[1]
                        = 1000 * KeptFuel[i].fuel_cost_kwh[1]
                /\ written[i].fuel_mmbtu_per_mwh[1]
                        = 1000 * KeptFuel[i].fuel_generaton[1]
                /\ written[i].fuel_qty_burned = KeptFuel[i].fuel_quantity
                /\ written[i].fuel[1] \in DOMAIN ferc1_fuel_strings
                /\ written[i].fuel_unit[1] \in DOMAIN ferc1_fuel_unit_strings

\* a row of bituminous coal in tons is written as coal in ton with its two
\* converted columns
C21_Witness ==
    /\ FuelReturned
    /\ \E i \in 1..Len(db["fuel_ferc1"]) :
        /\ db["fuel_ferc1"][i].fuel = Val("coal")
        /\ db["fuel_ferc1"][i].fuel_unit = Val("ton")
        /\ db["fuel_ferc1"][i].fuel_cost_per_mwh = Val(2000)
        /\ db["fuel_ferc1"][i].fuel_mmbtu_per_mwh = Val(4000)

---------------------------------------------------------------------------
(* C22: plant_info_eia923 has one row for each plant of the two pages.     *)

PlantInfoReturned ==
    pc = "returned" /\ args.eia923_tables = <<"plant_info_eia923">>

\* the plant_id cells of the plant_frame page as read, and those of the
\* generation_fuel page other than 99999
PlantFrameIds ==
    {eia923_dfs["plant_frame"][i].plant_id :
        i \in 1..Len(eia923_dfs["plant_frame"])}

GenerationFuelIds ==
    {eia923_dfs["generation_fuel"][i].plant_id :
        i \in 1..Len(eia923_dfs["generation_fuel"])} \ {Val(99999)}

\* C22: after ingest_plant_info_eia923, plant_info_eia923 holds exactly one
\* row for each plant_id of the plant_frame page or (other than 99999) of
\* the generation_fuel page, no plant_id is in two rows, and a plant of one
\* page only has a row whose fields of the other page are null (a missing
\* plant_id is merged as one more id)
C22_PlantInfoOneRowPerPlant ==
    PlantInfoReturned =>
        LET written == db["plant_info_eia923"]
        IN  /\ ColumnOf("plant_info_eia923", "plant_id")
                    = PlantFrameIds \cup GenerationFuelIds
            /\ Unique(written, {"plant_id"})
            /\ \A i \in 1..Len(written) :
                /\ IF written[i].plant_id \in PlantFrameIds
                   THEN \E r \in Range(eia923_dfs["plant_frame"]) :
                        /\ r.plant_id = written[i].plant_id
                        /\ r.plant_state = written[i].plant_state
                        /\ r.sector_number = written[i].eia_sector
                        /\ r.naics_code = written[i].naics_code
                   ELSE /\ IsNull(written[i].plant_state)
                        /\ IsNull(written[i].combined_heat_power)
                        /\ IsNull(written[i].eia_sector)
                        /\ IsNull(written[i].naics_code)
                        /\ IsNull(written[i].reporting_frequency)
                /\ IF written[i].plant_id \in GenerationFuelIds
                   THEN \E r \in Range(eia923_dfs["generation_fuel"]) :
                        /\ r.plant_id = written[i].plant_id
                        /\ r.census_region = written[i].census_region
                        /\ r.nerc_region = written[i].nerc_region
                   ELSE /\ IsNull(written[i].census_region)
                        /\ IsNull(written[i].nerc_region)

\* plants that plant_frame reports for two years and a plant of
\* generation_fuel only each have one row
C22_Witness ==
    /\ PlantInfoReturned
    /\ \E j, k \in 1..Len(db["plant_info_eia923"]) :
        /\ db["plant_info_eia923"][j].plant_id
                \in PlantFrameIds \ GenerationFuelIds
        /\ db["plant_info_eia923"][k].plant_id
                \in GenerationFuelIds \ (PlantFrameIds \cup {null})
    /\ Len(eia923_dfs["plant_frame"]) > Cardinality(PlantFrameIds)

---------------------------------------------------------------------------
(* C23: the keys of generators_eia923 and of generation_eia923.            *)

GeneratorReturned ==
    pc = "returned" /\ args.eia923_tables = <<"generation_eia923">>

\* C23: after ingest_generator_eia923, no two rows of generators_eia923
\* have the same plant_id and generator_id, and every row of
\* generation_eia923 has a plant_id and a generator_id, neither null, that
\* are those of a row of generators_eia923
C23_GenerationKeys ==
    GeneratorReturned =>
        /\ Unique(db["generators_eia923"], {"plant_id", "generator_id"})
        /\ \A i \in 1..Len(db["generation_eia923"]) :
            /\ ~IsNull(db["generation_eia923"][i].plant_id)
            /\ ~IsNull(db["generation_eia923"][i].generator_id)
            /\ \E j \in 1..Len(db["generators_eia923"]) :
                /\ db["generators_eia923"][j].plant_id
                        = db["generation_eia923"][i].plant_id
                /\ db["generators_eia923"][j].generator_id
                        = db["generation_eia923"][i].generator_id

---------------------------------------------------------------------------
(* C24: the ingest functions are independent of one another.               *)

\* what table d holds when the ingest function that writes it, if it was
\* requested, is the only one to run, on the sources as they are
TableAlone(d) ==
    IF \E t \in Ferc1IngestKeys :
            Requested(t, args.ferc1_tables) /\ d \in Destinations(t)
    THEN LET t == CHOOSE t \in Ferc1IngestKeys :
                    Requested(t, args.ferc1_tables) /\ d \in Destinations(t)
         IN  ferc1_ingest_functions(t, ferc1_db, args.ferc1_years).writes[d]
    ELSE IF \E t \in Eia923IngestKeys :
            Requested(t, args.eia923_tables) /\ d \in Destinations(t)
    THEN LET t == CHOOSE t \in Eia923IngestKeys :
                    Requested(t, args.eia923_tables) /\ d \in Destinations(t)
             pages == [p \in Eia923PagesNeeded({t}) |->
                        get_eia923_page(eia923_xlsx, p, args.eia923_years)]
         IN  eia923_ingest_functions(t, pages).writes[d]
    ELSE <<>>

\* C24: when init_db has ended after its ingest loops began, every FERC
\* Form 1 and EIA 923 table of PUDL holds what its own ingest function
\* writes when it runs alone, if that function was requested, and nothing
\* otherwise: whatever the order the functions ran in and whichever other
\* functions were requested
C24_TablesIndependent ==
    pc \in {"done", "raised"} =>
        \A d \in Ferc1Tables \cup Eia923Tables : db[d] = TableAlone(d)

============================================================================
